---- MODULE Spec2Model ----
(***************************************************************************)
(* A model of the file-operations bridging layer of the kernel crate:      *)
(* rust/kernel/file_operations.rs (trampolines, dispatch table, ioctl      *)
(* command decoding, pointer wrappers) and of its users.                   *)
(*                                                                         *)
(* The module holds several specifications over one set of variables; each *)
(* specification moves one group of variables and leaves the others at     *)
(* their initial values:                                                   *)
(*   Spec         open/release life cycle of the per-open instance         *)
(*   SpecViolate  Spec plus a host that releases a file a second time      *)
(*   SpecTwo      two contexts, each opening and releasing its own file    *)
(*   SpecVtable   the dispatch table built from the capability flags       *)
(*   SpecIoctl    IoctlCommand::new and IoctlCommand::dispatch             *)
(*   SpecCall     the per-call trampolines and their return conversion     *)
(*   SpecUse      Spec plus calls on the open file from both contexts      *)
(*   SpecWrapper  Box and Arc as PointerWrapper, at the level of memory    *)
(*   SpecDefault  the default methods of the FileOperations trait          *)
(*   SpecMisc     miscdev::Registration: register and drop                 *)
(*   SpecShared   open and release with a Box or an Arc as the wrapper     *)
(*   SpecParams   RustExample::init and the lock on the module parameters  *)
(*   SpecLog      LogLineWriter                                            *)
(***************************************************************************)
EXTENDS Integers, Sequences, FiniteSets, TLC

VARIABLES
    \* ---- life cycle (Spec, SpecViolate, SpecTwo)
    private_data,   \* [Files -> address]: struct file::private_data
    fstate,         \* [Files -> host-side state of the struct file]
    heap,           \* [Addr -> "free" | "owned" | "raw"]: the allocator and who owns a block
    pc,             \* [Ctx -> position of the context inside a trampoline]
    cur,            \* [Ctx -> locals of the running trampoline]
    ret,            \* [Ctx -> what the last trampoline returned to the host]
    into_addr,      \* [Files -> address into_pointer returned in open_callback]
    n_from,         \* [Files -> from_pointer calls that reclaimed a released address]
    n_bad,          \* [Files -> from_pointer calls on an address no into_pointer produced]
    n_hook,         \* [Files -> calls of T::release]
    hook_obj,       \* [Files -> the instance handed to T::release]
    violations,     \* number of releases the host issued against its contract
    \* ---- dispatch table (SpecVtable)
    to_use,         \* T::TO_USE, the capability flags the driver type declares
    vtable,         \* FileOperationsVtable::<T>::VTABLE
    vt_call,        \* the last call the host made through the table
    \* ---- ioctl commands (SpecIoctl)
    ioc,            \* the _IOC_* layout of the architecture the crate is built for
    icmd,           \* the IoctlCommand of the running ioctl call
    io_calls,       \* the handler calls made for icmd so far, in order
    io_last,        \* the last IoctlCommand::dispatch: what it found, called and returned
    \* ---- per-call trampolines (SpecCall)
    overflow_checks,\* whether the build panics on integer overflow (otherwise it wraps)
    f_pos,          \* the loff_t the host's offset pointer points to, after the last call
    call,           \* the last trampoline call: its arguments, what the driver did, the outcome
    \* ---- pointer wrappers in memory (SpecWrapper)
    wcell,          \* [Cells -> word]: the memory the allocator manages
    wlive,          \* [Blocks -> BOOLEAN]: whether the block is allocated
    wobj,           \* the wrapper followed: strategy, phase, the owner's handle, the raw pointer
    \* ---- default methods (SpecDefault)
    overrides,      \* the methods of FileOperations the driver type implements itself
    dcall,          \* the last call of a method: what it returned, what the host got
    \* ---- miscdev registration (SpecMisc)
    mdev,           \* Registration::mdev, an Option<miscdevice>
    misc_host,      \* the host's side: calls of misc_register / misc_deregister, the device
    misc_log,       \* the register attempts made, the last result, whether it was dropped
    \* ---- shared and exclusive instances (SpecShared)
    s_strategy,     \* T::Wrapper of the driver type: "Box" or "Arc"
    s_alloc,        \* [Addr -> BOOLEAN]: whether the storage of the instance is allocated
    s_count,        \* [Addr -> strong count of the ArcInner (1 for a live Box)]
    s_slot,         \* [Files -> address]: private_data of each file
    s_outside,      \* [Addr -> owners the driver keeps outside this layer]
    s_pc,           \* [Ctx -> position inside open_callback / release_callback]
    s_cur,          \* [Ctx -> locals of the running trampoline]
    \* ---- module parameters lock (SpecParams)
    config_sysfs,   \* whether the kernel is built with CONFIG_SYSFS
    kp_holder,      \* who holds the parameter lock: "none", "init" or "sysfs"
    kp_log,         \* the lock and unlock calls init made
    params,         \* the values of the parameters that can be written through sysfs
    init_pc,        \* position of RustExample::init
    init_ret,       \* what init returned
    \* ---- LogLineWriter (SpecLog)
    lw_data,        \* LogLineWriter::data
    lw_pos,         \* LogLineWriter::pos
    lw_log          \* the bytes handed to write_str so far, the calls, the last result

lifeVars == <<private_data, fstate, heap, pc, cur, ret, into_addr, n_from, n_bad,
              n_hook, hook_obj, violations>>

vtVars == <<to_use, vtable, vt_call>>

ioVars == <<ioc, icmd, io_calls, io_last>>

callVars == <<overflow_checks, f_pos, call>>

wrapVars == <<wcell, wlive, wobj>>

dfltVars == <<overrides, dcall>>

miscVars == <<mdev, misc_host, misc_log>>

shVars == <<s_strategy, s_alloc, s_count, s_slot, s_outside, s_pc, s_cur>>

lockVars == <<config_sysfs, kp_holder, kp_log, params, init_pc, init_ret>>

logVars == <<lw_data, lw_pos, lw_log>>

vars == <<lifeVars, vtVars, ioVars, callVars, wrapVars, dfltVars, miscVars, shVars, lockVars,
          logVars>>

\* What the actions of one group leave alone.
otherThanLife ==
    <<vtVars, ioVars, callVars, wrapVars, dfltVars, miscVars, shVars, lockVars, logVars>>

otherThanVtable ==
    <<lifeVars, ioVars, callVars, wrapVars, dfltVars, miscVars, shVars, lockVars, logVars>>

otherThanIoctl ==
    <<lifeVars, vtVars, callVars, wrapVars, dfltVars, miscVars, shVars, lockVars, logVars>>

otherThanCall ==
    <<lifeVars, vtVars, ioVars, wrapVars, dfltVars, miscVars, shVars, lockVars, logVars>>

otherThanWrapper ==
    <<lifeVars, vtVars, ioVars, callVars, dfltVars, miscVars, shVars, lockVars, logVars>>

otherThanDefault ==
    <<lifeVars, vtVars, ioVars, callVars, wrapVars, miscVars, shVars, lockVars, logVars>>

otherThanMisc ==
    <<lifeVars, vtVars, ioVars, callVars, wrapVars, dfltVars, shVars, lockVars, logVars>>

otherThanShared ==
    <<lifeVars, vtVars, ioVars, callVars, wrapVars, dfltVars, miscVars, lockVars, logVars>>

otherThanParams ==
    <<lifeVars, vtVars, ioVars, callVars, wrapVars, dfltVars, miscVars, shVars, logVars>>

otherThanLog ==
    <<lifeVars, vtVars, ioVars, callVars, wrapVars, dfltVars, miscVars, shVars, lockVars>>

-----------------------------------------------------------------------------
\* Bounds of the model.

\* struct file objects the host creates (each is opened at most once).
NFiles == 2
\* Blocks the allocator can hand out; a freed block may be handed out again.
NAddr == 2
\* Releases the host may issue against its contract (SpecViolate only).
MaxViolations == 1

\* Word widths. TLC's integers have 32 bits, so the 64-bit types (loff_t,
\* usize, isize, u64, c_long) are modelled with LongBits bits and the 32-bit
\* types (c_int, i32, u32) with IntBits bits; signedness and the order of the
\* two widths are kept.
LongBits == 16
IntBits == 8
\* The longest buffer the host passes to read and write.
MaxLen == 3

\* ptr::null_mut()
NULL == 0

Files == 1..NFiles
Addr == 1..NAddr
\* The two execution contexts of the host.
Ctx == {"c1", "c2"}

-----------------------------------------------------------------------------
\* Errors and the host's numeric convention.

\* Error::to_kernel_errno: the negative errno of the error kind.
to_kernel_errno(e) ==
    CASE e = "EINVAL" -> -22
      [] e = "EFAULT" -> -14
      [] e = "ENOMEM" -> -12

\* KernelResult<T>
Ok(v) == [ok |-> TRUE, v |-> v, e |-> "none"]
Err(e) == [ok |-> FALSE, v |-> 0, e |-> e]

from_kernel_result_positive(r) == IF r.ok THEN r.v ELSE -to_kernel_errno(r.e)

\* from_kernel_result: Ok(v) => v, Err(e) => T::try_from(e.to_kernel_errno()).unwrap().
\* Every T it is used at is a signed type of at least 32 bits, so try_from succeeds.
from_kernel_result(r) == IF r.ok THEN r.v ELSE to_kernel_errno(r.e)

\* What a trampoline hands back to the host.
Returned(op, v) == [kind |-> "ret", op |-> op, val |-> v]
NoReturn == [kind |-> "none", op |-> "none", val |-> 0]
\* The context died inside the trampoline (kernel oops).
Oops(op) == [kind |-> "oops", op |-> op, val |-> 0]

-----------------------------------------------------------------------------
\* PointerWrapper for Box<T>

into_pointer_drops(h, a) == [h EXCEPT ![a] = "free"]

\* Box::into_raw: the block stays allocated and has no Rust owner any more.
into_pointer(h, a) == [h EXCEPT ![a] = "raw"]

\* The safety contract of from_pointer: ptr came from a previous into_pointer
\* (and was not reclaimed since).
from_pointer_ok(h, ptr) == ptr \in Addr /\ h[ptr] = "raw"

\* Box::from_raw: the block has a Rust owner again.
from_pointer(h, ptr) == [h EXCEPT ![ptr] = "owned"]

\* Dropping a Box frees its block.
drop_box(h, a) == [h EXCEPT ![a] = "free"]

-----------------------------------------------------------------------------
\* Life cycle: open_callback and release_callback, one step per statement.

NoLocals == [file |-> 0, ptr |-> NULL, obj |-> NULL, bogus |-> FALSE, op |-> "none"]

InitLife ==
    /\ private_data = [f \in Files |-> NULL]
    /\ fstate = [f \in Files |-> "closed"]
    /\ heap = [a \in Addr |-> "free"]
    /\ pc = [c \in Ctx |-> "idle"]
    /\ cur = [c \in Ctx |-> NoLocals]
    /\ ret = [c \in Ctx |-> NoReturn]
    /\ into_addr = [f \in Files |-> NULL]
    /\ n_from = [f \in Files |-> 0]
    /\ n_bad = [f \in Files |-> 0]
    /\ n_hook = [f \in Files |-> 0]
    /\ hook_obj = [f \in Files |-> NULL]
    /\ violations = 0

\* The errors T::open can report (Box::try_new failing gives ENOMEM).
OpenErrors == {"ENOMEM", "EINVAL"}

\* open_callback, `T::open()?`: the host calls open on a fresh file; the driver
\* allocates its instance or fails, and on failure the trampoline returns here.
open_callback_open(c, f) ==
    /\ pc[c] = "idle"
    /\ fstate[f] = "closed"
    /\ \/ \E a \in Addr :
            /\ heap[a] = "free"
            /\ heap' = [heap EXCEPT ![a] = "owned"]
            /\ pc' = [pc EXCEPT ![c] = "open_into"]
            /\ cur' = [cur EXCEPT ![c] = [NoLocals EXCEPT !.file = f, !.obj = a]]
            /\ fstate' = [fstate EXCEPT ![f] = "opening"]
            /\ ret' = [ret EXCEPT ![c] = NoReturn]
       \/ \E e \in OpenErrors :
            /\ ret' = [ret EXCEPT ![c] = Returned("open", from_kernel_result(Err(e)))]
            /\ fstate' = [fstate EXCEPT ![f] = "failed"]
            /\ UNCHANGED <<heap, pc, cur>>
    /\ UNCHANGED <<private_data, into_addr, n_from, n_bad, n_hook, hook_obj, violations>>
    /\ UNCHANGED otherThanLife

\* open_callback, `.into_pointer()`.
open_callback_into(c) ==
    /\ pc[c] = "open_into"
    /\ heap' = into_pointer(heap, cur[c].obj)
    /\ cur' = [cur EXCEPT ![c].ptr = cur[c].obj, ![c].obj = NULL]
    /\ into_addr' = [into_addr EXCEPT ![cur[c].file] = cur[c].obj]
    /\ pc' = [pc EXCEPT ![c] = "open_store"]
    /\ UNCHANGED <<private_data, fstate, ret, n_from, n_bad, n_hook, hook_obj, violations>>
    /\ UNCHANGED otherThanLife

open_callback_store_null(c) ==
    /\ pc[c] = "open_store"
    /\ private_data' = [private_data EXCEPT ![cur[c].file] = NULL]
    /\ ret' = [ret EXCEPT ![c] = Returned("open", from_kernel_result(Ok(0)))]
    /\ fstate' = [fstate EXCEPT ![cur[c].file] = "open"]
    /\ pc' = [pc EXCEPT ![c] = "idle"]
    /\ cur' = [cur EXCEPT ![c] = NoLocals]
    /\ UNCHANGED <<heap, into_addr, n_from, n_bad, n_hook, hook_obj, violations>>
    /\ UNCHANGED otherThanLife

\* open_callback, `(*file).private_data = ptr; Ok(0)`.
open_callback_store(c) ==
    /\ pc[c] = "open_store"
    /\ private_data' = [private_data EXCEPT ![cur[c].file] = cur[c].ptr]
    /\ ret' = [ret EXCEPT ![c] = Returned("open", from_kernel_result(Ok(0)))]
    /\ fstate' = [fstate EXCEPT ![cur[c].file] = "open"]
    /\ pc' = [pc EXCEPT ![c] = "idle"]
    /\ cur' = [cur EXCEPT ![c] = NoLocals]
    /\ UNCHANGED <<heap, into_addr, n_from, n_bad, n_hook, hook_obj, violations>>
    /\ UNCHANGED otherThanLife

release_slot_kept(old) == old

\* The value mem::replace leaves in private_data: ptr::null_mut().
release_slot_after(old) == NULL

\* release_callback, `let ptr = mem::replace(&mut (*file).private_data, ptr::null_mut())`.
release_callback_replace(c, f) ==
    /\ pc[c] = "idle"
    /\ cur' = [cur EXCEPT ![c] = [NoLocals EXCEPT !.file = f, !.ptr = private_data[f]]]
    /\ private_data' = [private_data EXCEPT ![f] = release_slot_after(private_data[f])]
    /\ fstate' = [fstate EXCEPT ![f] = "releasing"]
    /\ pc' = [pc EXCEPT ![c] = "rel_from"]
    /\ ret' = [ret EXCEPT ![c] = NoReturn]
    /\ UNCHANGED <<heap, into_addr, n_from, n_bad, n_hook, hook_obj>>
    /\ UNCHANGED otherThanLife

\* The host releases an open file: once per successful open, after every other
\* call on the file has returned.
HostRelease(c, f) ==
    /\ fstate[f] = "open"
    /\ release_callback_replace(c, f)
    /\ UNCHANGED violations

\* Against its contract, the host releases a file it has already released.
HostReleaseAgain(c, f) ==
    /\ fstate[f] = "released"
    /\ violations < MaxViolations
    /\ violations' = violations + 1
    /\ release_callback_replace(c, f)

release_callback_from_skip(c) ==
    /\ pc[c] = "rel_from"
    /\ cur' = [cur EXCEPT ![c].obj = cur[c].ptr]
    /\ pc' = [pc EXCEPT ![c] = "rel_hook"]
    /\ UNCHANGED <<heap, n_from, n_bad, private_data, fstate, ret, into_addr, n_hook,
                   hook_obj, violations>>
    /\ UNCHANGED otherThanLife

\* release_callback, `T::Wrapper::from_pointer(ptr as _)`. from_pointer checks
\* nothing: on an address that breaks its safety contract the behaviour is
\* undefined, and the build either faults or carries on with a bogus Box.
release_callback_from(c) ==
    /\ pc[c] = "rel_from"
    /\ IF from_pointer_ok(heap, cur[c].ptr)
       THEN /\ heap' = from_pointer(heap, cur[c].ptr)
            /\ cur' = [cur EXCEPT ![c].obj = cur[c].ptr]
            /\ n_from' = [n_from EXCEPT ![cur[c].file] = @ + 1]
            /\ pc' = [pc EXCEPT ![c] = "rel_hook"]
            /\ UNCHANGED <<n_bad, ret>>
       ELSE /\ n_bad' = [n_bad EXCEPT ![cur[c].file] = @ + 1]
            /\ \E outcome \in {"fault", "carry_on"} :
                 IF outcome = "fault"
                 THEN /\ pc' = [pc EXCEPT ![c] = "dead"]
                      /\ ret' = [ret EXCEPT ![c] = Oops("release")]
                      /\ UNCHANGED cur
                 ELSE /\ pc' = [pc EXCEPT ![c] = "rel_hook"]
                      /\ cur' = [cur EXCEPT ![c].obj = cur[c].ptr, ![c].bogus = TRUE]
                      /\ UNCHANGED ret
            /\ UNCHANGED <<heap, n_from>>
    /\ UNCHANGED <<private_data, fstate, into_addr, n_hook, hook_obj, violations>>
    /\ UNCHANGED otherThanLife

\* release_callback, `T::release(obj, &File::from_ptr(file))`: the hook owns the
\* instance; it drops it (the default) or moves it elsewhere.
release_callback_hook(c) ==
    /\ pc[c] = "rel_hook"
    /\ n_hook' = [n_hook EXCEPT ![cur[c].file] = @ + 1]
    /\ hook_obj' = [hook_obj EXCEPT ![cur[c].file] = cur[c].obj]
    /\ \E keep \in BOOLEAN :
         heap' = IF keep \/ cur[c].bogus THEN heap ELSE drop_box(heap, cur[c].obj)
    /\ pc' = [pc EXCEPT ![c] = "rel_ret"]
    /\ UNCHANGED <<private_data, fstate, cur, ret, into_addr, n_from, n_bad, violations>>
    /\ UNCHANGED otherThanLife

\* release_callback, `0`.
release_callback_ret(c) ==
    /\ pc[c] = "rel_ret"
    /\ ret' = [ret EXCEPT ![c] = Returned("release", 0)]
    /\ fstate' = [fstate EXCEPT ![cur[c].file] = "released"]
    /\ pc' = [pc EXCEPT ![c] = "idle"]
    /\ cur' = [cur EXCEPT ![c] = NoLocals]
    /\ UNCHANGED <<private_data, heap, into_addr, n_from, n_bad, n_hook, hook_obj,
                   violations>>
    /\ UNCHANGED otherThanLife

\* The trampolines of the operations on an open file.
Operations == {"read", "write", "llseek", "unlocked_ioctl", "compat_ioctl", "fsync"}

op_callback_deref_takes(c, f, op) ==
    /\ pc[c] = "idle"
    /\ fstate[f] = "open"
    /\ cur' = [cur EXCEPT ![c] = [NoLocals EXCEPT !.file = f, !.ptr = private_data[f],
                                                    !.op = op]]
    /\ private_data' = [private_data EXCEPT ![f] = NULL]
    /\ pc' = [pc EXCEPT ![c] = "op_body"]
    /\ ret' = [ret EXCEPT ![c] = NoReturn]
    /\ UNCHANGED <<heap, fstate, into_addr, n_from, n_bad, n_hook, hook_obj, violations>>
    /\ UNCHANGED otherThanLife

\* read_callback .. fsync_callback, `let f = &*((*file).private_data as *const T)`:
\* the trampoline reads the slot and borrows the instance; the slot and the
\* ownership of the block stay as they are.
op_callback_deref(c, f, op) ==
    /\ pc[c] = "idle"
    /\ fstate[f] = "open"
    /\ cur' = [cur EXCEPT ![c] = [NoLocals EXCEPT !.file = f, !.ptr = private_data[f],
                                                    !.op = op]]
    /\ pc' = [pc EXCEPT ![c] = "op_body"]
    /\ ret' = [ret EXCEPT ![c] = NoReturn]
    /\ UNCHANGED <<private_data, heap, fstate, into_addr, n_from, n_bad, n_hook, hook_obj,
                   violations>>
    /\ UNCHANGED otherThanLife

\* read_callback .. fsync_callback: the driver's method ran with the borrowed
\* instance and the trampoline returns; the borrow ends.
op_callback_return(c) ==
    /\ pc[c] = "op_body"
    /\ ret' = [ret EXCEPT ![c] = Returned(cur[c].op, 0)]
    /\ pc' = [pc EXCEPT ![c] = "idle"]
    /\ cur' = [cur EXCEPT ![c] = NoLocals]
    /\ UNCHANGED <<private_data, heap, fstate, into_addr, n_from, n_bad, n_hook, hook_obj,
                   violations>>
    /\ UNCHANGED otherThanLife

\* The host releases a file when its last reference goes away: every call on
\* the file holds a reference, so none is in flight.
HostReleaseLast(c, f) ==
    /\ \A d \in Ctx : pc[d] = "op_body" => cur[d].file # f
    /\ HostRelease(c, f)

-----------------------------------------------------------------------------
\* The dispatch table.

CapNames == {"read", "write", "seek", "ioctl", "compat_ioctl", "fsync"}

\* USE_NONE: every flag false.
USE_NONE ==
    [read |-> FALSE, write |-> FALSE, seek |-> FALSE, ioctl |-> FALSE,
     compat_ioctl |-> FALSE, fsync |-> FALSE]

\* declare_file_operations!(i, ...): the listed fields true, the rest from
\* USE_NONE; declare_file_operations!() is USE_NONE itself.
declare_file_operations(S) ==
    IF S = {} THEN USE_NONE
    ELSE [n \in CapNames |-> IF n \in S THEN TRUE ELSE USE_NONE[n]]

\* Option::None in a function-pointer slot.
None == "None"

VTABLE_seek_from_read(T) ==
    [open |-> "open_callback", release |-> "release_callback",
     read |-> IF T.read THEN "read_callback" ELSE None,
     write |-> IF T.write THEN "write_callback" ELSE None,
     llseek |-> IF T.read THEN "llseek_callback" ELSE None,
     check_flags |-> None,
     compat_ioctl |-> IF T.compat_ioctl THEN "compat_ioctl_callback" ELSE None,
     copy_file_range |-> None, fallocate |-> None, fadvise |-> None, fasync |-> None,
     flock |-> None, flush |-> None,
     fsync |-> IF T.fsync THEN "fsync_callback" ELSE None,
     get_unmapped_area |-> None, iterate |-> None, iterate_shared |-> None,
     iopoll |-> None, lock |-> None, mmap |-> None,
     mmap_supported_flags |-> 0, owner |-> NULL,
     poll |-> None, read_iter |-> None, remap_file_range |-> None, sendpage |-> None,
     setlease |-> None, show_fdinfo |-> None, splice_read |-> None,
     splice_write |-> None,
     unlocked_ioctl |-> IF T.ioctl THEN "unlocked_ioctl_callback" ELSE None,
     write_iter |-> None]

VTABLE_write_from_read(T) ==
    [VTABLE_seek_from_read(T) EXCEPT
        !.llseek = IF T.seek THEN "llseek_callback" ELSE None,
        !.write = IF T.read THEN "write_callback" ELSE None]

\* FileOperationsVtable::<T>::VTABLE, field by field.
VTABLE(T) ==
    [open |-> "open_callback", release |-> "release_callback",
     read |-> IF T.read THEN "read_callback" ELSE None,
     write |-> IF T.write THEN "write_callback" ELSE None,
     llseek |-> IF T.seek THEN "llseek_callback" ELSE None,
     check_flags |-> None,
     compat_ioctl |-> IF T.compat_ioctl THEN "compat_ioctl_callback" ELSE None,
     copy_file_range |-> None, fallocate |-> None, fadvise |-> None, fasync |-> None,
     flock |-> None, flush |-> None,
     fsync |-> IF T.fsync THEN "fsync_callback" ELSE None,
     get_unmapped_area |-> None, iterate |-> None, iterate_shared |-> None,
     iopoll |-> None, lock |-> None, mmap |-> None,
     mmap_supported_flags |-> 0, owner |-> NULL,
     poll |-> None, read_iter |-> None, remap_file_range |-> None, sendpage |-> None,
     setlease |-> None, show_fdinfo |-> None, splice_read |-> None,
     splice_write |-> None,
     unlocked_ioctl |-> IF T.ioctl THEN "unlocked_ioctl_callback" ELSE None,
     write_iter |-> None]

\* The fields of struct file_operations that are not function pointers.
DataSlots == {"mmap_supported_flags", "owner"}

\* The function-pointer fields.
FnSlots == DOMAIN VTABLE(USE_NONE) \ DataSlots

\* The slot each capability flag drives.
SlotOf(n) ==
    CASE n = "seek" -> "llseek"
      [] n = "ioctl" -> "unlocked_ioctl"
      [] OTHER -> n

\* The method of the driver type each trampoline calls.
MethodOf(trampoline) ==
    CASE trampoline = "open_callback" -> "open"
      [] trampoline = "release_callback" -> "release"
      [] trampoline = "read_callback" -> "read"
      [] trampoline = "write_callback" -> "write"
      [] trampoline = "llseek_callback" -> "seek"
      [] trampoline = "unlocked_ioctl_callback" -> "ioctl"
      [] trampoline = "compat_ioctl_callback" -> "compat_ioctl"
      [] trampoline = "fsync_callback" -> "fsync"
      [] OTHER -> None

NoCall == [slot |-> "none", entered |-> None, method |-> None]

\* The driver type is fixed at compile time: any of the 64 declarations, with
\* its table already built.
InitVtable ==
    /\ to_use \in {declare_file_operations(S) : S \in SUBSET CapNames}
    /\ vtable = VTABLE(to_use)
    /\ vt_call = NoCall

\* The table of the other specifications: RustFile of the example driver,
\* which declares no optional operation.
RustFile_TO_USE == declare_file_operations({})

FixedVtable ==
    /\ to_use = RustFile_TO_USE
    /\ vtable = VTABLE(to_use)
    /\ vt_call = NoCall

\* The host calls through a slot: a null slot is answered by the host itself,
\* any other enters the trampoline stored there.
HostInvoke(slot) ==
    /\ vt_call' = [slot |-> slot, entered |-> vtable[slot],
                    method |-> MethodOf(vtable[slot])]
    /\ UNCHANGED <<to_use, vtable>>
    /\ UNCHANGED otherThanVtable

NextVtable == \E slot \in FnSlots : HostInvoke(slot)

-----------------------------------------------------------------------------
\* User-space buffers.

\* The first address above user space (the limit access_ok checks against):
\* user space is the lower half of the address space.
TASK_SIZE_MAX == 2 ^ (LongBits - 1)

\* access_ok(addr, len): the whole range lies in user space.
access_ok(addr, len) == addr + len <= TASK_SIZE_MAX

\* UserSlicePtr::new(ptr, length): Err(EFAULT) unless access_ok(ptr, length).
UserSlicePtr_new(ptr, len) ==
    IF access_ok(ptr, len)
    THEN [ok |-> TRUE, ptr |-> ptr, len |-> len, e |-> "none"]
    ELSE [ok |-> FALSE, ptr |-> 0, len |-> 0, e |-> "EFAULT"]

\* Option<UserSlicePtr>
NoSlice == [some |-> FALSE, ptr |-> 0, len |-> 0]
SomeSlice(ptr, len) == [some |-> TRUE, ptr |-> ptr, len |-> len]

ok_keeps_err(r) == SomeSlice(r.ptr, r.len)

\* Result::ok(): Ok(v) => Some(v), Err(_) => None.
ok(r) == IF r.ok THEN SomeSlice(r.ptr, r.len) ELSE NoSlice

\* UserSlicePtr::reader(), UserSlicePtr::writer() and the slice itself, as
\* the views a handler receives; NoView is a call that gets no buffer.
reader(data) == [kind |-> "reader", ptr |-> data.ptr, len |-> data.len]
writer(data) == [kind |-> "writer", ptr |-> data.ptr, len |-> data.len]
raw_slice(data) == [kind |-> "raw", ptr |-> data.ptr, len |-> data.len]
NoView == [kind |-> "none", ptr |-> 0, len |-> 0]

-----------------------------------------------------------------------------
\* Packed command words. A u32 command word is kept as its two 16-bit halves
\* [hi, lo] (cmd = hi * 2^16 + lo).

\* include/uapi/asm-generic/ioctl.h: 2 direction bits at 30, 14 size bits at 16.
IocGeneric ==
    [DIRSHIFT |-> 30, DIRMASK |-> 3, SIZESHIFT |-> 16, SIZEMASK |-> 16383,
     NONE |-> 0, WRITE |-> 1, READ |-> 2]

\* The layout of the architectures that override it (alpha, mips, powerpc,
\* sparc): 3 direction bits at 29, 13 size bits at 16.
IocThreeBit ==
    [DIRSHIFT |-> 29, DIRMASK |-> 7, SIZESHIFT |-> 16, SIZEMASK |-> 8191,
     NONE |-> 1, READ |-> 2, WRITE |-> 4]

Layouts == {IocGeneric, IocThreeBit}

RECURSIVE BitOr(_, _)
\* a | b on naturals.
BitOr(a, b) ==
    IF a = 0 THEN b
    ELSE IF b = 0 THEN a
    ELSE (IF a % 2 = 1 \/ b % 2 = 1 THEN 1 ELSE 0) + 2 * BitOr(a \div 2, b \div 2)

\* (cmd >> shift) & mask, for shift >= 16 and mask = 2^k - 1.
ShiftMask(cmd, shift, mask) == (cmd.hi \div (2 ^ (shift - 16))) % (mask + 1)

\* (cmd >> _IOC_DIRSHIFT) & _IOC_DIRMASK
dir_of(L, cmd) == ShiftMask(cmd, L.DIRSHIFT, L.DIRMASK)

\* (cmd >> _IOC_SIZESHIFT) & _IOC_SIZEMASK
size_of(L, cmd) == ShiftMask(cmd, L.SIZESHIFT, L.SIZEMASK)

\* The command word with direction d, size sz and type/number bits lo.
Pack(L, d, sz, lo) == [hi |-> d * (2 ^ (L.DIRSHIFT - 16)) + sz, lo |-> lo]

\* Dispatches allowed on one command.
MaxDispatch == 2

\* Sampled inputs: payload sizes, type/number bits, argument values (null, a
\* user address, a user address 16 bytes below the limit, a kernel address).
SizeSamples(L) == {0, 16, L.SIZEMASK}
LoSamples == {0, 4660}
ArgSamples == {0, 4096, TASK_SIZE_MAX - 16, TASK_SIZE_MAX + 4096}
CmdSamples(L) ==
    {Pack(L, d, sz, lo) : d \in 0..L.DIRMASK, sz \in SizeSamples(L), lo \in LoSamples}

\* The results a handler can return.
HandlerResults == {Ok(0), Ok(1), Err("EINVAL"), Err("EFAULT")}

NoCmd == [live |-> FALSE, cmd |-> [hi |-> 0, lo |-> 0], arg |-> 0, user_slice |-> NoSlice]

\* IoctlCommand::new
IoctlCommand_new(L, cmd, arg) ==
    LET dir == dir_of(L, cmd)
        user_slice ==
            IF dir = L.NONE THEN NoSlice
            ELSE ok(UserSlicePtr_new(arg, size_of(L, cmd)))
    IN [live |-> TRUE, cmd |-> cmd, arg |-> arg, user_slice |-> user_slice]

\* One handler call: which IoctlHandler method, with which command, argument
\* and view.
HandlerCall(h, cmd, arg, view) == [h |-> h, cmd |-> cmd, arg |-> arg, view |-> view]

\* What a dispatch does before the handler's own result is known: the handler
\* calls it makes, the error it fails with by itself ("none" when the result is
\* the handler's), and the user_slice it leaves in the command.
Routed(calls, e, slice) == [calls |-> calls, e |-> e, user_slice |-> slice]

dispatch_other_to_read_write(L, self) ==
    LET dir == dir_of(L, self.cmd)
        data == self.user_slice
        READ_WRITE == BitOr(L.READ, L.WRITE)
    IN  IF dir = L.NONE
        THEN Routed(<<HandlerCall("pure", self.cmd, self.arg, NoView)>>, "none",
                    self.user_slice)
        ELSE IF ~data.some
        THEN Routed(<<>>, "EFAULT", NoSlice)
        ELSE IF dir = L.WRITE
        THEN Routed(<<HandlerCall("write", self.cmd, 0, reader(data))>>, "none", NoSlice)
        ELSE IF dir = L.READ
        THEN Routed(<<HandlerCall("read", self.cmd, 0, writer(data))>>, "none", NoSlice)
        ELSE Routed(<<HandlerCall("read_write", self.cmd, 0, raw_slice(data))>>, "none",
                    NoSlice)

dispatch_swapped(L, self) ==
    LET dir == dir_of(L, self.cmd)
        data == self.user_slice
        READ_WRITE == BitOr(L.READ, L.WRITE)
    IN  IF dir = L.NONE
        THEN Routed(<<HandlerCall("pure", self.cmd, self.arg, NoView)>>, "none",
                    self.user_slice)
        ELSE IF ~data.some
        THEN Routed(<<>>, "EFAULT", NoSlice)
        ELSE IF dir = L.READ
        THEN Routed(<<HandlerCall("write", self.cmd, 0, reader(data))>>, "none", NoSlice)
        ELSE IF dir = L.WRITE
        THEN Routed(<<HandlerCall("read", self.cmd, 0, writer(data))>>, "none", NoSlice)
        ELSE IF dir = READ_WRITE
        THEN Routed(<<HandlerCall("read_write", self.cmd, 0, raw_slice(data))>>, "none",
                    NoSlice)
        ELSE Routed(<<>>, "EINVAL", NoSlice)

dispatch_keeps_view(L, self) ==
    LET dir == dir_of(L, self.cmd)
        data == self.user_slice
        READ_WRITE == BitOr(L.READ, L.WRITE)
    IN  IF dir = L.NONE
        THEN Routed(<<HandlerCall("pure", self.cmd, self.arg, NoView)>>, "none",
                    self.user_slice)
        ELSE IF ~data.some
        THEN Routed(<<>>, "EFAULT", NoSlice)
        ELSE IF dir = L.WRITE
        THEN Routed(<<HandlerCall("write", self.cmd, 0, reader(data))>>, "none", data)
        ELSE IF dir = L.READ
        THEN Routed(<<HandlerCall("read", self.cmd, 0, writer(data))>>, "none", data)
        ELSE IF dir = READ_WRITE
        THEN Routed(<<HandlerCall("read_write", self.cmd, 0, raw_slice(data))>>, "none",
                    data)
        ELSE Routed(<<>>, "EINVAL", data)

\* IoctlCommand::dispatch up to the handler's return.
dispatch(L, self) ==
    LET dir == dir_of(L, self.cmd)
        data == self.user_slice
        READ_WRITE == BitOr(L.READ, L.WRITE)
    IN  IF dir = L.NONE
        THEN Routed(<<HandlerCall("pure", self.cmd, self.arg, NoView)>>, "none",
                    self.user_slice)
        ELSE IF ~data.some
        THEN Routed(<<>>, "EFAULT", NoSlice)
        ELSE IF dir = L.WRITE
        THEN Routed(<<HandlerCall("write", self.cmd, 0, reader(data))>>, "none", NoSlice)
        ELSE IF dir = L.READ
        THEN Routed(<<HandlerCall("read", self.cmd, 0, writer(data))>>, "none", NoSlice)
        ELSE IF dir = READ_WRITE
        THEN Routed(<<HandlerCall("read_write", self.cmd, 0, raw_slice(data))>>, "none",
                    NoSlice)
        ELSE Routed(<<>>, "EINVAL", NoSlice)

NoDispatch == [n |-> 0, had_slice |-> FALSE, calls |-> <<>>, result |-> Ok(0)]

InitIoctl ==
    /\ ioc \in Layouts
    /\ icmd = NoCmd
    /\ io_calls = <<>>
    /\ io_last = NoDispatch

\* The layout of the other specifications.
FixedIoctl ==
    /\ ioc = IocGeneric
    /\ icmd = NoCmd
    /\ io_calls = <<>>
    /\ io_last = NoDispatch

\* unlocked_ioctl_callback / compat_ioctl_callback, `IoctlCommand::new(cmd, arg)`:
\* every ioctl call of the host starts with a fresh command.
IoctlNew ==
    /\ \E cmd \in CmdSamples(ioc) : \E arg \in ArgSamples :
         icmd' = IoctlCommand_new(ioc, cmd, arg)
    /\ io_calls' = <<>>
    /\ io_last' = NoDispatch
    /\ UNCHANGED ioc
    /\ UNCHANGED otherThanIoctl

\* The driver's ioctl method calls cmd.dispatch(handler, file).
IoctlDispatch ==
    /\ icmd.live
    /\ io_last.n < MaxDispatch
    /\ LET d == dispatch(ioc, icmd) IN
         /\ icmd' = [icmd EXCEPT !.user_slice = d.user_slice]
         /\ io_calls' = io_calls \o d.calls
         /\ \E r \in HandlerResults :
              io_last' = [n |-> io_last.n + 1,
                          had_slice |-> icmd.user_slice.some,
                          calls |-> d.calls,
                          result |-> IF d.e = "none" THEN r ELSE Err(d.e)]
    /\ UNCHANGED ioc
    /\ UNCHANGED otherThanIoctl

NextIoctl == IoctlNew \/ IoctlDispatch

-----------------------------------------------------------------------------
\* Integer types and conversions.

\* loff_t, isize, c_long
MinLoff == -(2 ^ (LongBits - 1))
MaxLoff == 2 ^ (LongBits - 1) - 1
\* u64, usize
MaxU64 == 2 ^ LongBits - 1
\* c_int, i32
MinInt == -(2 ^ (IntBits - 1))
MaxInt == 2 ^ (IntBits - 1) - 1
\* u32
MaxU32 == 2 ^ IntBits - 1

loff_try_into_u64_wrapping(v) == Ok(IF v >= 0 THEN v ELSE v + 2 ^ LongBits)

\* loff_t -> u64 with try_into()?: a negative value is a TryFromIntError,
\* which `?` turns into Error::EINVAL.
loff_try_into_u64(v) == IF v >= 0 THEN Ok(v) ELSE Err("EINVAL")

\* u64 -> loff_t with `as`: the bit pattern is kept, so values from 2^63 on
\* come out negative.
u64_as_loff(v) == IF v > MaxLoff THEN v - 2 ^ LongBits ELSE v

\* i32 -> c_long with `as`: sign extension.
i32_as_c_long(v) == v

\* usize -> loff_t / isize with try_from(..).unwrap(): whether it fits.
usize_fits_signed(v) == v <= MaxLoff

\* u32 -> c_int with try_into().unwrap(): whether it fits.
u32_fits_c_int(v) == v <= MaxInt

\* c_int -> u32 with `as`: the bit pattern is kept.
c_int_as_u32(v) == IF v < 0 THEN v + 2 ^ IntBits ELSE v

\* loff_t addition that wraps around.
wrapping_add_loff(a, b) == ((a + b - MinLoff) % (2 ^ LongBits)) + MinLoff

-----------------------------------------------------------------------------
\* Per-call trampolines. Each is an operator from the host's arguments and
\* what the driver's method does to the trampoline's outcome.

\* bindings::SEEK_SET, SEEK_CUR, SEEK_END
SEEK_SET == 0
SEEK_CUR == 1
SEEK_END == 2

\* The trampoline panicked (BUG()).
Panicked(op) == [kind |-> "panic", op |-> op, val |-> 0]

\* SeekFrom, as llseek_callback hands it to T::seek.
NoSeek == [kind |-> "none", off |-> 0]
SeekFrom(kind, off) == [kind |-> kind, off |-> off]

\* An outcome: whether the driver's method was executed, the bytes left in the
\* bounded view, what the host gets back, the host's offset afterwards, and
\* the SeekFrom built.
Outcome(entered, remaining, out, pos, seek) ==
    [entered |-> entered, remaining |-> remaining, out |-> out, pos |-> pos, seek |-> seek]

\* What a driver method does: the bytes it moves through the bounded view it
\* was given and the KernelResult it returns.
Driver(k, r) == [k |-> k, r |-> r]

\* open_callback as one call (its steps are the life-cycle actions above).
open_callback(drv) ==
    IF ~drv.r.ok
    THEN Outcome(TRUE, 0, Returned("open", from_kernel_result(Err(drv.r.e))), 0, NoSeek)
    ELSE Outcome(TRUE, 0, Returned("open", from_kernel_result(Ok(0))), 0, NoSeek)

\* The part read_callback and write_callback share after the driver's method
\* returned Ok: the count from the view, the offset update, the return.
transfer_done(op, len, remaining, off, checks) ==
    LET n == len - remaining IN
    IF ~usize_fits_signed(n)
    THEN Outcome(TRUE, remaining, Panicked(op), off, NoSeek)
    ELSE IF off + n > MaxLoff /\ checks
    THEN Outcome(TRUE, remaining, Panicked(op), off, NoSeek)
    ELSE Outcome(TRUE, remaining, Returned(op, from_kernel_result(Ok(n))),
                 wrapping_add_loff(off, n), NoSeek)

read_callback_advances_on_error(buf, len, off, drv, checks) ==
    LET data == UserSlicePtr_new(buf, len)
        offset == loff_try_into_u64(off)
    IN  IF ~data.ok
        THEN Outcome(FALSE, len, Returned("read", from_kernel_result(Err(data.e))), off, NoSeek)
        ELSE IF ~offset.ok
        THEN Outcome(FALSE, len, Returned("read", from_kernel_result(Err(offset.e))), off,
                     NoSeek)
        ELSE IF ~drv.r.ok
        THEN Outcome(TRUE, len - drv.k, Returned("read", from_kernel_result(Err(drv.r.e))),
                     wrapping_add_loff(off, drv.k), NoSeek)
        ELSE transfer_done("read", len, len - drv.k, off, checks)

\* read_callback
read_callback(buf, len, off, drv, checks) ==
    LET data == UserSlicePtr_new(buf, len)
        offset == loff_try_into_u64(off)
    IN  IF ~data.ok
        THEN Outcome(FALSE, len, Returned("read", from_kernel_result(Err(data.e))), off, NoSeek)
        ELSE IF ~offset.ok
        THEN Outcome(FALSE, len, Returned("read", from_kernel_result(Err(offset.e))), off,
                     NoSeek)
        ELSE IF ~drv.r.ok
        THEN Outcome(TRUE, len - drv.k, Returned("read", from_kernel_result(Err(drv.r.e))),
                     off, NoSeek)
        ELSE transfer_done("read", len, len - drv.k, off, checks)

write_callback_trusts_driver(buf, len, off, drv, checks) ==
    LET data == UserSlicePtr_new(buf, len)
        offset == loff_try_into_u64(off)
    IN  IF ~data.ok
        THEN Outcome(FALSE, len, Returned("write", from_kernel_result(Err(data.e))), off, NoSeek)
        ELSE IF ~offset.ok
        THEN Outcome(FALSE, len, Returned("write", from_kernel_result(Err(offset.e))), off,
                     NoSeek)
        ELSE IF ~drv.r.ok
        THEN Outcome(TRUE, len - drv.k, Returned("write", from_kernel_result(Err(drv.r.e))),
                     off, NoSeek)
        ELSE Outcome(TRUE, len - drv.k, Returned("write", from_kernel_result(Ok(drv.r.v))),
                     wrapping_add_loff(off, drv.r.v), NoSeek)

\* write_callback: the isize T::write returns is not used.
write_callback(buf, len, off, drv, checks) ==
    LET data == UserSlicePtr_new(buf, len)
        offset == loff_try_into_u64(off)
    IN  IF ~data.ok
        THEN Outcome(FALSE, len, Returned("write", from_kernel_result(Err(data.e))), off, NoSeek)
        ELSE IF ~offset.ok
        THEN Outcome(FALSE, len, Returned("write", from_kernel_result(Err(offset.e))), off,
                     NoSeek)
        ELSE IF ~drv.r.ok
        THEN Outcome(TRUE, len - drv.k, Returned("write", from_kernel_result(Err(drv.r.e))),
                     off, NoSeek)
        ELSE transfer_done("write", len, len - drv.k, off, checks)

llseek_callback_swapped(offset, whence, drv) ==
    LET start == loff_try_into_u64(offset)
        w == c_int_as_u32(whence)
        off == CASE w = SEEK_SET -> SeekFrom("Start", start.v)
                 [] w = SEEK_CUR -> SeekFrom("End", offset)
                 [] w = SEEK_END -> SeekFrom("Current", offset)
                 [] OTHER -> NoSeek
    IN  IF w = SEEK_SET /\ ~start.ok
        THEN Outcome(FALSE, 0, Returned("llseek", from_kernel_result(Err(start.e))), 0, NoSeek)
        ELSE IF w \notin {SEEK_SET, SEEK_CUR, SEEK_END}
        THEN Outcome(FALSE, 0, Returned("llseek", from_kernel_result(Err("EINVAL"))), 0, NoSeek)
        ELSE IF ~drv.r.ok
        THEN Outcome(TRUE, 0, Returned("llseek", from_kernel_result(Err(drv.r.e))), 0, off)
        ELSE Outcome(TRUE, 0, Returned("llseek", from_kernel_result(Ok(u64_as_loff(drv.r.v)))),
                     0, off)

\* llseek_callback
llseek_callback(offset, whence, drv) ==
    LET start == loff_try_into_u64(offset)
        w == c_int_as_u32(whence)
        off == CASE w = SEEK_SET -> SeekFrom("Start", start.v)
                 [] w = SEEK_CUR -> SeekFrom("Current", offset)
                 [] w = SEEK_END -> SeekFrom("End", offset)
                 [] OTHER -> NoSeek
    IN  IF w = SEEK_SET /\ ~start.ok
        THEN Outcome(FALSE, 0, Returned("llseek", from_kernel_result(Err(start.e))), 0, NoSeek)
        ELSE IF w \notin {SEEK_SET, SEEK_CUR, SEEK_END}
        THEN Outcome(FALSE, 0, Returned("llseek", from_kernel_result(Err("EINVAL"))), 0, NoSeek)
        ELSE IF ~drv.r.ok
        THEN Outcome(TRUE, 0, Returned("llseek", from_kernel_result(Err(drv.r.e))), 0, off)
        ELSE Outcome(TRUE, 0, Returned("llseek", from_kernel_result(Ok(u64_as_loff(drv.r.v)))),
                     0, off)

\* unlocked_ioctl_callback and compat_ioctl_callback: IoctlCommand::new cannot
\* fail, so the driver's method is always entered.
ioctl_callback(op, drv) ==
    IF ~drv.r.ok
    THEN Outcome(TRUE, 0, Returned(op, from_kernel_result(Err(drv.r.e))), 0, NoSeek)
    ELSE Outcome(TRUE, 0, Returned(op, from_kernel_result(Ok(i32_as_c_long(drv.r.v)))), 0,
                 NoSeek)

\* fsync_callback
fsync_callback(start, end, datasync, drv) ==
    LET s == loff_try_into_u64(start)
        e == loff_try_into_u64(end)
    IN  IF ~s.ok
        THEN Outcome(FALSE, 0, Returned("fsync", from_kernel_result(Err(s.e))), 0, NoSeek)
        ELSE IF ~e.ok
        THEN Outcome(FALSE, 0, Returned("fsync", from_kernel_result(Err(e.e))), 0, NoSeek)
        ELSE IF ~drv.r.ok
        THEN Outcome(TRUE, 0, Returned("fsync", from_kernel_result(Err(drv.r.e))), 0, NoSeek)
        ELSE IF ~u32_fits_c_int(drv.r.v)
        THEN Outcome(TRUE, 0, Panicked("fsync"), 0, NoSeek)
        ELSE Outcome(TRUE, 0, Returned("fsync", from_kernel_result(Ok(drv.r.v))), 0, NoSeek)

\* Sampled inputs: offsets (the ends of loff_t and the values around zero),
\* buffer addresses (user, kernel), whence values; and sampled driver results.
OffsetSamples == {MinLoff, -1, 0, 1, MaxLoff - 1, MaxLoff}
BufSamples == {4096, TASK_SIZE_MAX + 4096}
WhenceSamples == {SEEK_SET, SEEK_CUR, SEEK_END, 3, -1}
DriverErrors == {"EINVAL", "ENOMEM"}
ErrResults == {Err(e) : e \in DriverErrors}
IsizeResults == {Ok(v) : v \in {-1, 0, 1, MaxLen + 1}} \cup ErrResults
U64Results == {Ok(v) : v \in {0, 1, MaxLoff, MaxLoff + 1, MaxU64}} \cup ErrResults
I32Results == {Ok(v) : v \in {MinInt, -1, 0, 1, MaxInt}} \cup ErrResults
U32Results == {Ok(v) : v \in {0, 1, MaxInt, MaxInt + 1, MaxU32}} \cup ErrResults
UnitResults == {Ok(0)} \cup ErrResults

NoArgs == [buf |-> 0, len |-> 0, off |-> 0, end |-> 0, whence |-> 0, datasync |-> 0]

\* The record of a call: the trampoline, the host's arguments, the driver's
\* behaviour and the outcome.
Called(op, args, drv, o) == [op |-> op, args |-> args, drv |-> drv, o |-> o]

NoCallYet == Called("none", NoArgs, Driver(0, Ok(0)), Outcome(FALSE, 0, NoReturn, 0, NoSeek))

InitCall ==
    /\ overflow_checks \in BOOLEAN
    /\ f_pos = 0
    /\ call = NoCallYet

FixedCall ==
    /\ overflow_checks = TRUE
    /\ f_pos = 0
    /\ call = NoCallYet

\* The host calls open.
CallOpen ==
    /\ call.op = "none"
    /\ \E r \in UnitResults :
         LET drv == Driver(0, r) IN
         call' = Called("open", NoArgs, drv, open_callback(drv))
    /\ UNCHANGED <<overflow_checks, f_pos>>
    /\ UNCHANGED otherThanCall

\* The host calls read with a buffer and a pointer to the offset to read at;
\* the driver writes k bytes and returns.
CallRead ==
    /\ call.op = "none"
    /\ \E buf \in BufSamples : \E len \in 0..MaxLen : \E off \in OffsetSamples :
       \E k \in 0..len : \E r \in UnitResults :
         LET drv == Driver(k, r)
             o == read_callback(buf, len, off, drv, overflow_checks)
         IN /\ call' = Called("read", [NoArgs EXCEPT !.buf = buf, !.len = len, !.off = off],
                              drv, o)
            /\ f_pos' = o.pos
    /\ UNCHANGED overflow_checks
    /\ UNCHANGED otherThanCall

\* The host calls write; the driver reads k bytes and returns a count of its own.
CallWrite ==
    /\ call.op = "none"
    /\ \E buf \in BufSamples : \E len \in 0..MaxLen : \E off \in OffsetSamples :
       \E k \in 0..len : \E r \in IsizeResults :
         LET drv == Driver(k, r)
             o == write_callback(buf, len, off, drv, overflow_checks)
         IN /\ call' = Called("write", [NoArgs EXCEPT !.buf = buf, !.len = len, !.off = off],
                              drv, o)
            /\ f_pos' = o.pos
    /\ UNCHANGED overflow_checks
    /\ UNCHANGED otherThanCall

\* The host calls llseek.
CallLlseek ==
    /\ call.op = "none"
    /\ \E off \in OffsetSamples : \E whence \in WhenceSamples : \E r \in U64Results :
         LET drv == Driver(0, r) IN
         call' = Called("llseek", [NoArgs EXCEPT !.off = off, !.whence = whence], drv,
                        llseek_callback(off, whence, drv))
    /\ UNCHANGED <<overflow_checks, f_pos>>
    /\ UNCHANGED otherThanCall

\* The host calls unlocked_ioctl or compat_ioctl.
CallIoctl ==
    /\ call.op = "none"
    /\ \E op \in {"unlocked_ioctl", "compat_ioctl"} : \E r \in I32Results :
         LET drv == Driver(0, r) IN
         call' = Called(op, NoArgs, drv, ioctl_callback(op, drv))
    /\ UNCHANGED <<overflow_checks, f_pos>>
    /\ UNCHANGED otherThanCall

\* The host calls fsync.
CallFsync ==
    /\ call.op = "none"
    /\ \E start \in OffsetSamples : \E end \in OffsetSamples : \E datasync \in {0, 1} :
       \E r \in U32Results :
         LET drv == Driver(0, r) IN
         call' = Called("fsync",
                        [NoArgs EXCEPT !.off = start, !.end = end, !.datasync = datasync],
                        drv, fsync_callback(start, end, datasync, drv))
    /\ UNCHANGED <<overflow_checks, f_pos>>
    /\ UNCHANGED otherThanCall

\* The host takes the return value; the file is ready for its next call.
HostReturn ==
    /\ call.op # "none"
    /\ call' = NoCallYet
    /\ UNCHANGED <<overflow_checks, f_pos>>
    /\ UNCHANGED otherThanCall

NextCall ==
    CallOpen \/ CallRead \/ CallWrite \/ CallLlseek \/ CallIoctl \/ CallFsync \/ HostReturn

-----------------------------------------------------------------------------
\* PointerWrapper for Box<T> and Arc<T>, at the level of memory words.

\* Blocks of the allocator and other owners an Arc can have.
NBlocks == 2
MaxClones == 2

\* Words of a block; an ArcInner<T> is { strong, weak, data }, so the data of
\* an Arc lies DataOffset words into its block. A Box<T> block starts with T.
BlockWords == 3
DataOffset == 2

Blocks == 1..NBlocks
\* The words of the blocks, and the words behind the last block.
Cells == 1..(NBlocks * BlockWords + DataOffset)
Base(b) == (b - 1) * BlockWords + 1
BlockOf(addr) == ((addr - 1) \div BlockWords) + 1

\* The values of T.
Vals == {7, 9, 11}
Strategies == {"Box", "Arc"}

\* Box::into_raw: the pointer the Box holds, which points to T.
Box_into_raw(handle) == handle

\* Box::from_raw
Box_from_raw(ptr) == ptr

\* Arc::into_raw: a pointer to the data field of the ArcInner.
Arc_into_raw(handle) == handle + DataOffset

Arc_from_raw_no_offset(ptr) == ptr

\* Arc::from_raw: back from the data field to the ArcInner.
Arc_from_raw(ptr) == ptr - DataOffset

\* PointerWrapper::into_pointer of each strategy.
Wrapper_into_pointer(st, handle) ==
    IF st = "Box" THEN Box_into_raw(handle) ELSE Arc_into_raw(handle)

\* PointerWrapper::from_pointer of each strategy.
Wrapper_from_pointer(st, ptr) ==
    IF st = "Box" THEN Box_from_raw(ptr) ELSE Arc_from_raw(ptr)

\* The T an owner reaches through its handle.
Deref(st, handle, mem) == IF st = "Box" THEN mem[handle] ELSE mem[handle + DataOffset]

\* The strong count of the ArcInner at handle.
Strong(handle, mem) == mem[handle]

NoWrapper ==
    [phase |-> "none", st |-> "Box", handle |-> NULL, raw |-> NULL, val |-> 0,
     orig |-> NULL, clones |-> 0, live_before |-> <<>>, strong_before |-> 0]

InitWrapper ==
    /\ wcell = [a \in Cells |-> 0]
    /\ wlive = [b \in Blocks |-> FALSE]
    /\ wobj = NoWrapper

FixedWrapper == InitWrapper

\* Box::try_new(v) / Arc::try_new(v): a block is allocated and initialized.
WrapperNew(st, v) ==
    /\ wobj.phase = "none"
    /\ \E b \in Blocks :
         /\ ~wlive[b]
         /\ wlive' = [wlive EXCEPT ![b] = TRUE]
         /\ wcell' = IF st = "Box"
                     THEN [wcell EXCEPT ![Base(b)] = v]
                     ELSE [wcell EXCEPT ![Base(b)] = 1, ![Base(b) + 1] = 1,
                                        ![Base(b) + DataOffset] = v]
         /\ wobj' = [NoWrapper EXCEPT !.phase = "owned", !.st = st, !.handle = Base(b),
                                      !.val = v, !.orig = Base(b)]
    /\ UNCHANGED otherThanWrapper

\* Another owner of the Arc appears (Arc::clone) or goes away (drop).
WrapperClone ==
    /\ wobj.st = "Arc" /\ wobj.phase \in {"owned", "raw", "back"}
    /\ wobj.clones < MaxClones
    /\ wcell' = [wcell EXCEPT ![wobj.orig] = @ + 1]
    /\ wobj' = [wobj EXCEPT !.clones = @ + 1]
    /\ UNCHANGED wlive
    /\ UNCHANGED otherThanWrapper

WrapperCloneDrop ==
    /\ wobj.st = "Arc" /\ wobj.clones > 0
    /\ wcell' = [wcell EXCEPT ![wobj.orig] = @ - 1]
    /\ wobj' = [wobj EXCEPT !.clones = @ - 1]
    /\ wlive' = IF Strong(wobj.orig, wcell) = 1
                THEN [wlive EXCEPT ![BlockOf(wobj.orig)] = FALSE]
                ELSE wlive
    /\ UNCHANGED otherThanWrapper

\* into_pointer: the owner gives its handle up for a raw pointer.
WrapperInto ==
    /\ wobj.phase = "owned"
    /\ wobj' = [wobj EXCEPT !.phase = "raw", !.handle = NULL,
                            !.raw = Wrapper_into_pointer(wobj.st, wobj.handle),
                            !.live_before = wlive,
                            !.strong_before = Strong(wobj.handle, wcell) - wobj.clones]
    /\ UNCHANGED <<wcell, wlive>>
    /\ UNCHANGED otherThanWrapper

\* from_pointer, once, on the pointer into_pointer returned.
WrapperFrom ==
    /\ wobj.phase = "raw"
    /\ wobj' = [wobj EXCEPT !.phase = "back", !.raw = NULL,
                            !.handle = Wrapper_from_pointer(wobj.st, wobj.raw)]
    /\ UNCHANGED <<wcell, wlive>>
    /\ UNCHANGED otherThanWrapper

\* The owner is dropped: a Box frees its block, an Arc gives up its count and
\* frees the block with the last one.
WrapperDrop ==
    /\ wobj.phase \in {"owned", "back"}
    /\ wobj.handle \in Cells
    /\ IF wobj.st = "Box"
       THEN /\ wlive' = [wlive EXCEPT ![BlockOf(wobj.handle)] = FALSE]
            /\ UNCHANGED wcell
       ELSE /\ wcell' = [wcell EXCEPT ![wobj.handle] = @ - 1]
            /\ wlive' = IF Strong(wobj.handle, wcell) = 1
                        THEN [wlive EXCEPT ![BlockOf(wobj.handle)] = FALSE]
                        ELSE wlive
    /\ wobj' = [wobj EXCEPT !.phase = "dropped", !.handle = NULL]
    /\ UNCHANGED otherThanWrapper

\* Every owner is gone; the next wrapper can be followed.
WrapperForget ==
    /\ wobj.phase = "dropped" /\ wobj.clones = 0
    /\ wobj' = NoWrapper
    /\ UNCHANGED <<wcell, wlive>>
    /\ UNCHANGED otherThanWrapper

NextWrapper ==
    \/ \E st \in Strategies : \E v \in Vals : WrapperNew(st, v)
    \/ WrapperClone
    \/ WrapperCloneDrop
    \/ WrapperInto
    \/ WrapperFrom
    \/ WrapperDrop
    \/ WrapperForget

-----------------------------------------------------------------------------
\* The default methods of the FileOperations trait.

\* The methods a driver type can leave to the trait.
Defaulted == CapNames \cup {"release"}

FileOperations_default_ok(m) == Ok(0)

\* The bodies of the default read, write, seek, ioctl, compat_ioctl and fsync.
FileOperations_default(m) ==
    CASE m = "read" -> Err("EINVAL")
      [] m = "write" -> Err("EINVAL")
      [] m = "seek" -> Err("EINVAL")
      [] m = "ioctl" -> Err("EINVAL")
      [] m = "compat_ioctl" -> Err("EINVAL")
      [] m = "fsync" -> Err("EINVAL")

\* What a release hook does with the instance it is given, and whether it
\* does anything else. The default `fn release(_obj, _file) {}` has an empty
\* body: the instance is dropped when the parameter goes out of scope.
ReleaseDone(obj, effect) == [obj |-> obj, effect |-> effect]
FileOperations_release_default == ReleaseDone("dropped", FALSE)
ReleaseOverrides == {ReleaseDone(o, e) : o \in {"dropped", "moved"}, e \in BOOLEAN}

\* The results a method the driver implements can return.
OwnResults(m) ==
    CASE m = "read" -> UnitResults
      [] m = "write" -> {Ok(0), Ok(1)} \cup ErrResults
      [] m = "seek" -> {Ok(0), Ok(1)} \cup ErrResults
      [] m = "ioctl" -> {Ok(0), Ok(1)} \cup ErrResults
      [] m = "compat_ioctl" -> {Ok(0), Ok(1)} \cup ErrResults
      [] m = "fsync" -> {Ok(0), Ok(1)} \cup ErrResults

\* The trampoline of method m, called by the host with arguments that pass
\* its conversions, around a method that moves no bytes and returns r.
TrampolineAround(m, r) ==
    CASE m = "read" -> read_callback(4096, 1, 0, Driver(0, r), TRUE)
      [] m = "write" -> write_callback(4096, 1, 0, Driver(0, r), TRUE)
      [] m = "seek" -> llseek_callback(0, SEEK_SET, Driver(0, r))
      [] m = "ioctl" -> ioctl_callback("unlocked_ioctl", Driver(0, r))
      [] m = "compat_ioctl" -> ioctl_callback("compat_ioctl", Driver(0, r))
      [] m = "fsync" -> fsync_callback(0, 1, 0, Driver(0, r))

NoMethodCall ==
    [m |-> "none", own |-> FALSE, result |-> Ok(0), out |-> NoReturn,
     released |-> ReleaseDone("none", FALSE)]

InitDefault ==
    /\ overrides \in SUBSET Defaulted
    /\ dcall = NoMethodCall

\* RustFile of the example driver implements none of them.
FixedDefault ==
    /\ overrides = {}
    /\ dcall = NoMethodCall

\* A method is called through its trampoline: the driver's own body when the
\* type implements it, the trait's otherwise.
CallMethod(m) ==
    /\ \E r \in (IF m \in overrides THEN OwnResults(m) ELSE {FileOperations_default(m)}) :
         dcall' = [NoMethodCall EXCEPT !.m = m, !.own = (m \in overrides), !.result = r,
                                      !.out = TrampolineAround(m, r).out]
    /\ UNCHANGED overrides
    /\ UNCHANGED otherThanDefault

\* release_callback calls T::release with the instance.
CallReleaseHook ==
    /\ \E d \in (IF "release" \in overrides THEN ReleaseOverrides
                  ELSE {FileOperations_release_default}) :
         dcall' = [NoMethodCall EXCEPT !.m = "release", !.own = ("release" \in overrides),
                                      !.released = d, !.out = Returned("release", 0)]
    /\ UNCHANGED overrides
    /\ UNCHANGED otherThanDefault

NextDefault ==
    \/ \E m \in CapNames : CallMethod(m)
    \/ CallReleaseHook

-----------------------------------------------------------------------------
\* miscdev::Registration

\* Register attempts followed on one Registration.
MaxAttempts == 3

\* bindings::MISC_DYNAMIC_MINOR
MISC_DYNAMIC_MINOR == 255

\* Error::from_kernel_errno
from_kernel_errno(n) ==
    CASE n = -22 -> "EINVAL"
      [] n = -16 -> "EBUSY"
      [] n = -14 -> "EFAULT"
      [] n = -12 -> "ENOMEM"

\* Option<bindings::miscdevice>
NoDev == [some |-> FALSE, name |-> "", minor |-> 0, fops |-> "none"]
SomeDev(name, minor, fops) == [some |-> TRUE, name |-> name, minor |-> minor, fops |-> fops]

\* Option<i32>::unwrap_or(MISC_DYNAMIC_MINOR as i32)
NoMinor == -1
unwrap_or_dynamic(minor) == IF minor = NoMinor THEN MISC_DYNAMIC_MINOR ELSE minor

\* Sampled inputs.
NameSamples == {"rust_miscdev", "other"}
MinorSamples == {NoMinor, 0, 5, 130}

\* The minors the host hands out for MISC_DYNAMIC_MINOR.
DynamicMinors == {62, 63}

\* bindings::misc_register(dev): the outcomes the host can produce. It fails
\* with -EBUSY (the minor is taken) or -ENOMEM, or succeeds, and then a
\* dynamic minor has been replaced in *dev by the minor allocated.
misc_register(dev) ==
    {[ret |-> r, dev |-> dev] : r \in {-16, -12}}
        \cup {[ret |-> 0, dev |-> [dev EXCEPT !.minor = m]] :
                 m \in IF dev.minor = MISC_DYNAMIC_MINOR THEN DynamicMinors ELSE {dev.minor}}

\* The host: its calls, and the device it holds registered.
NoHost == [n_register |-> 0, n_deregister |-> 0, dev |-> NoDev]

NoAttempts ==
    [attempts |-> 0, successes |-> 0, last |-> Ok(0), dropped |-> FALSE, boxed |-> FALSE]

InitMisc ==
    /\ mdev = NoDev
    /\ misc_host = NoHost
    /\ misc_log = NoAttempts

FixedMisc == InitMisc

Registration_register_again(name, minor) ==
    /\ ~misc_log.dropped
    /\ misc_log.attempts < MaxAttempts
    /\ LET dev == SomeDev(name, unwrap_or_dynamic(minor), "VTABLE") IN
       \E o \in misc_register(dev) :
         /\ misc_host' = [misc_host EXCEPT !.n_register = @ + 1,
                                           !.dev = IF o.ret < 0 THEN @ ELSE o.dev]
         /\ mdev' = IF o.ret < 0 THEN NoDev ELSE o.dev
         /\ misc_log' = [misc_log EXCEPT
                            !.attempts = @ + 1,
                            !.successes = IF o.ret < 0 THEN @ ELSE @ + 1,
                            !.last = IF o.ret < 0 THEN Err(from_kernel_errno(o.ret)) ELSE Ok(0)]
    /\ UNCHANGED otherThanMisc

Registration_register_keeps(name, minor) ==
    /\ ~misc_log.dropped
    /\ misc_log.attempts < MaxAttempts
    /\ IF mdev.some
       THEN /\ misc_log' = [misc_log EXCEPT !.attempts = @ + 1, !.last = Err("EINVAL")]
            /\ UNCHANGED <<mdev, misc_host>>
       ELSE LET dev == SomeDev(name, unwrap_or_dynamic(minor), "VTABLE") IN
            \E o \in misc_register(dev) :
              /\ misc_host' = [misc_host EXCEPT !.n_register = @ + 1,
                                                !.dev = IF o.ret < 0 THEN @ ELSE o.dev]
              /\ mdev' = o.dev
              /\ misc_log' = [misc_log EXCEPT
                                 !.attempts = @ + 1,
                                 !.successes = IF o.ret < 0 THEN @ ELSE @ + 1,
                                 !.last = IF o.ret < 0 THEN Err(from_kernel_errno(o.ret)) ELSE Ok(0)]
    /\ UNCHANGED otherThanMisc

\* Registration::register
Registration_register(name, minor) ==
    /\ ~misc_log.dropped
    /\ misc_log.attempts < MaxAttempts
    /\ IF mdev.some
       THEN /\ misc_log' = [misc_log EXCEPT !.attempts = @ + 1, !.last = Err("EINVAL")]
            /\ UNCHANGED <<mdev, misc_host>>
       ELSE LET dev == SomeDev(name, unwrap_or_dynamic(minor), "VTABLE") IN
            \E o \in misc_register(dev) :
              /\ misc_host' = [misc_host EXCEPT !.n_register = @ + 1,
                                                !.dev = IF o.ret < 0 THEN @ ELSE o.dev]
              /\ mdev' = IF o.ret < 0 THEN NoDev ELSE o.dev
              /\ misc_log' = [misc_log EXCEPT
                                 !.attempts = @ + 1,
                                 !.successes = IF o.ret < 0 THEN @ ELSE @ + 1,
                                 !.last = IF o.ret < 0 THEN Err(from_kernel_errno(o.ret)) ELSE Ok(0)]
    /\ UNCHANGED otherThanMisc

Registration_drop_always ==
    /\ ~misc_log.dropped
    /\ misc_host' = [misc_host EXCEPT !.n_deregister = @ + 1, !.dev = NoDev]
    /\ mdev' = NoDev
    /\ misc_log' = [misc_log EXCEPT !.dropped = TRUE]
    /\ UNCHANGED otherThanMisc

\* Drop for Registration
Registration_drop ==
    /\ ~misc_log.dropped
    /\ IF mdev.some
       THEN misc_host' = [misc_host EXCEPT !.n_deregister = @ + 1, !.dev = NoDev]
       ELSE UNCHANGED misc_host
    /\ mdev' = NoDev
    /\ misc_log' = [misc_log EXCEPT !.dropped = TRUE]
    /\ UNCHANGED otherThanMisc

\* Registration::new_pinned: a boxed Registration and its first register; when
\* that fails the box is dropped on the way out.
Registration_new_pinned(name, minor) ==
    /\ ~misc_log.dropped
    /\ misc_log.attempts = 0
    /\ LET dev == SomeDev(name, unwrap_or_dynamic(minor), "VTABLE") IN
       \E o \in misc_register(dev) :
         /\ misc_host' = [misc_host EXCEPT !.n_register = @ + 1,
                                           !.dev = IF o.ret < 0 THEN @ ELSE o.dev]
         /\ mdev' = IF o.ret < 0 THEN NoDev ELSE o.dev
         /\ misc_log' = [misc_log EXCEPT
                            !.attempts = @ + 1,
                            !.successes = IF o.ret < 0 THEN @ ELSE @ + 1,
                            !.last = IF o.ret < 0 THEN Err(from_kernel_errno(o.ret)) ELSE Ok(0),
                            !.dropped = (o.ret < 0),
                            !.boxed = TRUE]
    /\ UNCHANGED otherThanMisc

NextMisc ==
    \/ \E name \in NameSamples : \E minor \in MinorSamples :
          Registration_register(name, minor)
    \/ \E name \in NameSamples : \E minor \in MinorSamples :
          Registration_new_pinned(name, minor)
    \/ Registration_drop

-----------------------------------------------------------------------------
\* Instances behind Box and Arc: who owns the storage between open and release

WrapperKinds == {"Box", "Arc"}

\* Owners of one instance the driver keeps outside at a time.
MaxOutside == 2

SharedIdle == [file |-> 0, obj |-> NULL]

\* Owners of the instance at address a: the slots that hold its address, the trampolines
\* that hold it as a local, and the owners the driver keeps outside this layer.
SlotHolders(a) == Cardinality({f \in Files : s_slot[f] = a})
LocalHolders(a) == Cardinality({c \in Ctx : s_pc[c] # "idle" /\ s_cur[c].obj = a})
Holders(a) == SlotHolders(a) + LocalHolders(a) + s_outside[a]

FileBusy(f) == \E c \in Ctx : s_pc[c] # "idle" /\ s_cur[c].file = f

Shared_into_pointer_drops(count, a) == [count EXCEPT ![a] = @ - 1]

\* Box::into_raw and Arc::into_raw: the owner becomes a bare address, the count stays.
Shared_into_pointer(count, a) == count

\* Dropping one owner: the count goes down and the storage is freed when it reaches zero.
DropOwner(a) ==
    /\ s_count' = [s_count EXCEPT ![a] = @ - 1]
    /\ s_alloc' = [s_alloc EXCEPT ![a] = s_count[a] - 1 > 0]

InitShared ==
    /\ s_strategy \in WrapperKinds
    /\ s_alloc = [a \in Addr |-> FALSE]
    /\ s_count = [a \in Addr |-> 0]
    /\ s_slot = [f \in Files |-> NULL]
    /\ s_outside = [a \in Addr |-> 0]
    /\ s_pc = [c \in Ctx |-> "idle"]
    /\ s_cur = [c \in Ctx |-> SharedIdle]

FixedShared ==
    /\ s_strategy = "Box"
    /\ s_alloc = [a \in Addr |-> FALSE]
    /\ s_count = [a \in Addr |-> 0]
    /\ s_slot = [f \in Files |-> NULL]
    /\ s_outside = [a \in Addr |-> 0]
    /\ s_pc = [c \in Ctx |-> "idle"]
    /\ s_cur = [c \in Ctx |-> SharedIdle]

\* The driver makes the instance it shares (Arc::try_new) and keeps it.
sh_new(a) ==
    /\ s_strategy = "Arc"
    /\ ~s_alloc[a] /\ s_count[a] = 0
    /\ s_alloc' = [s_alloc EXCEPT ![a] = TRUE]
    /\ s_count' = [s_count EXCEPT ![a] = 1]
    /\ s_outside' = [s_outside EXCEPT ![a] = 1]
    /\ UNCHANGED <<s_strategy, s_slot, s_pc, s_cur>>
    /\ UNCHANGED otherThanShared

\* open_callback, T::open()?: with Arc the hook hands out a clone of an instance the driver
\* keeps; with Box it allocates a new one.
sh_open_clone(c, f, a) ==
    /\ s_pc[c] = "idle" /\ s_slot[f] = NULL /\ ~FileBusy(f)
    /\ IF s_strategy = "Arc"
       THEN /\ s_outside[a] > 0 /\ s_alloc[a]
            /\ s_count' = [s_count EXCEPT ![a] = @ + 1]
            /\ UNCHANGED s_alloc
       ELSE /\ ~s_alloc[a] /\ s_count[a] = 0
            /\ s_count' = [s_count EXCEPT ![a] = 1]
            /\ s_alloc' = [s_alloc EXCEPT ![a] = TRUE]
    /\ s_cur' = [s_cur EXCEPT ![c] = [file |-> f, obj |-> a]]
    /\ s_pc' = [s_pc EXCEPT ![c] = "opened"]
    /\ UNCHANGED <<s_strategy, s_slot, s_outside>>
    /\ UNCHANGED otherThanShared

\* open_callback: let ptr = ....into_pointer(); (*file).private_data = ptr
sh_open_store(c) ==
    /\ s_pc[c] = "opened"
    /\ LET a == s_cur[c].obj
           n == Shared_into_pointer(s_count, a) IN
         /\ s_count' = n
         /\ s_alloc' = [s_alloc EXCEPT ![a] = n[a] > 0]
         /\ s_slot' = [s_slot EXCEPT ![s_cur[c].file] = a]
    /\ s_pc' = [s_pc EXCEPT ![c] = "idle"]
    /\ s_cur' = [s_cur EXCEPT ![c] = SharedIdle]
    /\ UNCHANGED <<s_strategy, s_outside>>
    /\ UNCHANGED otherThanShared

\* release_callback: mem::replace(&mut (*file).private_data, null_mut()), from_pointer(ptr)
sh_release_take(c, f) ==
    /\ s_pc[c] = "idle" /\ s_slot[f] # NULL /\ ~FileBusy(f)
    /\ s_cur' = [s_cur EXCEPT ![c] = [file |-> f, obj |-> s_slot[f]]]
    /\ s_slot' = [s_slot EXCEPT ![f] = NULL]
    /\ s_pc' = [s_pc EXCEPT ![c] = "taken"]
    /\ UNCHANGED <<s_strategy, s_alloc, s_count, s_outside>>
    /\ UNCHANGED otherThanShared

\* release_callback: T::release(obj, &*file). The hook owns obj: the default drops it,
\* an override may move it elsewhere.
sh_release_hook(c, moved) ==
    /\ s_pc[c] = "taken"
    /\ LET a == s_cur[c].obj IN
         IF moved
         THEN /\ s_outside[a] < MaxOutside
              /\ s_outside' = [s_outside EXCEPT ![a] = @ + 1]
              /\ UNCHANGED <<s_alloc, s_count>>
         ELSE /\ DropOwner(a)
              /\ UNCHANGED s_outside
    /\ s_pc' = [s_pc EXCEPT ![c] = "idle"]
    /\ s_cur' = [s_cur EXCEPT ![c] = SharedIdle]
    /\ UNCHANGED <<s_strategy, s_slot>>
    /\ UNCHANGED otherThanShared

\* The driver drops an owner it kept outside.
sh_outside_drop(a) ==
    /\ s_outside[a] > 0
    /\ s_outside' = [s_outside EXCEPT ![a] = @ - 1]
    /\ DropOwner(a)
    /\ UNCHANGED <<s_strategy, s_slot, s_pc, s_cur>>
    /\ UNCHANGED otherThanShared

NextShared ==
    \/ \E a \in Addr : sh_new(a)
    \/ \E c \in Ctx, f \in Files, a \in Addr : sh_open_clone(c, f, a)
    \/ \E c \in Ctx : sh_open_store(c)
    \/ \E c \in Ctx, f \in Files : sh_release_take(c, f)
    \/ \E c \in Ctx, moved \in BOOLEAN : sh_release_hook(c, moved)
    \/ \E a \in Addr : sh_outside_drop(a)

-----------------------------------------------------------------------------
\* ThisModule::kernel_param_lock, KParamGuard and RustExample::init

\* Writes to the parameters through sysfs followed while init runs.
MaxStores == 2

\* The parameters init reads under the lock (perm 0o644: writable through sysfs).
\* my_str is kept as whether its bytes are valid UTF-8.
ParamValues ==
    [my_i32 : {42, 7}, my_str : {"utf8", "not_utf8"}, my_usize : {42, 8}]

NoLockCalls == [locks |-> 0, unlocks |-> 0, stores |-> 0, left |-> "no"]

KParamGuard_drop_never(sysfs, holder, log) == [holder |-> holder, log |-> log]

\* ThisModule::kernel_param_lock: with CONFIG_SYSFS it takes the lock of the module, without
\* it only the guard is made.
kernel_param_lock(sysfs, holder, log) ==
    IF sysfs
    THEN [holder |-> "init", log |-> [log EXCEPT !.locks = @ + 1]]
    ELSE [holder |-> holder, log |-> log]

\* <KParamGuard as Drop>::drop, compiled only with CONFIG_SYSFS.
KParamGuard_drop(sysfs, holder, log) ==
    IF sysfs
    THEN [holder |-> "none", log |-> [log EXCEPT !.unlocks = @ + 1]]
    ELSE [holder |-> holder, log |-> log]

InitParams ==
    /\ config_sysfs \in BOOLEAN
    /\ kp_holder = "none"
    /\ kp_log = NoLockCalls
    /\ params \in ParamValues
    /\ init_pc = "start"
    /\ init_ret = Ok(0)

FixedParams ==
    /\ config_sysfs = TRUE
    /\ kp_holder = "none"
    /\ kp_log = NoLockCalls
    /\ params = [my_i32 |-> 42, my_str |-> "utf8", my_usize |-> 42]
    /\ init_pc = "start"
    /\ init_ret = Ok(0)

\* let lock = THIS_MODULE.kernel_param_lock(); it waits while the lock is taken.
init_lock ==
    /\ init_pc = "start"
    /\ config_sysfs => kp_holder = "none"
    /\ LET l == kernel_param_lock(config_sysfs, kp_holder, kp_log) IN
         /\ kp_holder' = l.holder
         /\ kp_log' = l.log
    /\ init_pc' = "my_i32"
    /\ UNCHANGED <<config_sysfs, params, init_ret>>
    /\ UNCHANGED otherThanParams

\* my_bool.read(), my_i32.read(&lock)
init_read_i32 ==
    /\ init_pc = "my_i32"
    /\ init_pc' = "my_str"
    /\ UNCHANGED <<config_sysfs, kp_holder, kp_log, params, init_ret>>
    /\ UNCHANGED otherThanParams

\* core::str::from_utf8(my_str.read(&lock))?: an error returns from init, which drops the
\* guard on the way out.
init_from_utf8 ==
    /\ init_pc = "my_str"
    /\ IF params.my_str = "utf8"
       THEN /\ init_pc' = "my_usize"
            /\ UNCHANGED <<kp_holder, kp_log, init_ret>>
       ELSE LET d == KParamGuard_drop(config_sysfs, kp_holder, kp_log) IN
            /\ kp_holder' = d.holder
            /\ kp_log' = [d.log EXCEPT !.left = "early_return"]
            /\ init_ret' = Err("EINVAL")
            /\ init_pc' = "done"
    /\ UNCHANGED <<config_sysfs, params>>
    /\ UNCHANGED otherThanParams

\* my_usize.read(&lock), my_array.read(), then the block ends and the guard is dropped.
init_scope_end ==
    /\ init_pc = "my_usize"
    /\ LET d == KParamGuard_drop(config_sysfs, kp_holder, kp_log) IN
         /\ kp_holder' = d.holder
         /\ kp_log' = [d.log EXCEPT !.left = "block_end"]
    /\ init_pc' = "after"
    /\ UNCHANGED <<config_sysfs, params, init_ret>>
    /\ UNCHANGED otherThanParams

\* The rest of init: the allocations and the registrations succeed or fail.
init_rest ==
    /\ init_pc = "after"
    /\ init_ret' \in {Ok(0), Err("ENOMEM"), Err("EINVAL")}
    /\ init_pc' = "done"
    /\ UNCHANGED <<config_sysfs, kp_holder, kp_log, params>>
    /\ UNCHANGED otherThanParams

\* A write to a parameter file in sysfs: the host takes the same lock ...
sysfs_store_lock ==
    /\ config_sysfs
    /\ kp_holder = "none"
    /\ kp_log.stores < MaxStores
    /\ kp_holder' = "sysfs"
    /\ kp_log' = [kp_log EXCEPT !.stores = @ + 1]
    /\ UNCHANGED <<config_sysfs, params, init_pc, init_ret>>
    /\ UNCHANGED otherThanParams

\* ... sets the parameter and unlocks.
sysfs_store_set ==
    /\ kp_holder = "sysfs"
    /\ params' \in ParamValues
    /\ kp_holder' = "none"
    /\ UNCHANGED <<config_sysfs, kp_log, init_pc, init_ret>>
    /\ UNCHANGED otherThanParams

NextParams ==
    \/ init_lock
    \/ init_read_i32
    \/ init_from_utf8
    \/ init_scope_end
    \/ init_rest
    \/ sysfs_store_lock
    \/ sysfs_store_set

-----------------------------------------------------------------------------
\* printk::LogLineWriter

\* const LOG_LINE_MAX: usize = 1024 - 32
LOG_LINE_MAX == 1024 - 32

\* write_str calls followed on one writer.
MaxWrites == 3

\* cmp::min
Min(a, b) == IF a <= b THEN a ELSE b

\* Sampled inputs: the bytes of strings of a few lengths (empty, one byte, a short one, two
\* that fill the line exactly, one longer than the line), told apart by tag.
Str(n, tag) == [i \in 1..n |-> (i + tag) % 256]
StrSamples == {Str(0, 0), Str(1, 65), Str(300, 4), Str(495, 1), Str(497, 2), Str(993, 3)}

write_str_unclamped(data, pos, str) ==
    LET copy_len == Len(str) IN
    [data |-> [i \in 1..LOG_LINE_MAX |->
                  IF pos < i /\ i <= pos + copy_len THEN str[i - pos] ELSE data[i]],
     pos |-> pos + copy_len,
     res |-> Ok(0)]

\* <LogLineWriter as fmt::Write>::write_str
write_str(data, pos, str) ==
    LET copy_len == Min(LOG_LINE_MAX - pos, Len(str)) IN
    [data |-> [i \in 1..LOG_LINE_MAX |->
                  IF pos < i /\ i <= pos + copy_len THEN str[i - pos] ELSE data[i]],
     pos |-> pos + copy_len,
     res |-> Ok(0)]

\* LogLineWriter::as_bytes: &self.data[..self.pos]
as_bytes(data, pos) == [i \in 1..pos |-> data[i]]

\* LogLineWriter::new
InitLog ==
    /\ lw_data = [i \in 1..LOG_LINE_MAX |-> 0]
    /\ lw_pos = 0
    /\ lw_log = [all |-> <<>>, n |-> 0, last |-> Ok(0)]

FixedLog == InitLog

\* A formatter calls write_str with the next piece of the line.
WriteStr(str) ==
    /\ lw_log.n < MaxWrites
    /\ LET w == write_str(lw_data, lw_pos, str) IN
         /\ lw_data' = w.data
         /\ lw_pos' = w.pos
         /\ lw_log' = [all |-> lw_log.all \o str, n |-> lw_log.n + 1, last |-> w.res]
    /\ UNCHANGED otherThanLog

NextLog == \E str \in StrSamples : WriteStr(str)

-----------------------------------------------------------------------------
\* Specifications.

Init ==
    /\ InitLife /\ FixedVtable /\ FixedIoctl /\ FixedCall /\ FixedWrapper
    /\ FixedDefault /\ FixedMisc /\ FixedShared /\ FixedParams /\ FixedLog

TrampolineStep(c) ==
    \/ open_callback_into(c)
    \/ open_callback_store(c)
    \/ release_callback_from(c)
    \/ release_callback_hook(c)
    \/ release_callback_ret(c)

Next ==
    \E c \in Ctx :
        \/ \E f \in Files : open_callback_open(c, f)
        \/ \E f \in Files : HostRelease(c, f)
        \/ TrampolineStep(c)

Spec == Init /\ [][Next]_vars

NextViolate ==
    \/ Next
    \/ \E c \in Ctx : \E f \in Files : HostReleaseAgain(c, f)

SpecViolate == Init /\ [][NextViolate]_vars

\* Two contexts, each opening and then releasing its own, independent file.
FileOf(c) == IF c = "c1" THEN 1 ELSE 2

NextTwo ==
    \E c \in Ctx :
        \/ open_callback_open(c, FileOf(c))
        \/ HostRelease(c, FileOf(c))
        \/ TrampolineStep(c)

SpecTwo == Init /\ [][NextTwo]_vars


\* Open, calls on the open file from both contexts, release.
NextUse ==
    \E c \in Ctx :
        \/ \E f \in Files : open_callback_open(c, f)
        \/ \E f \in Files : \E op \in Operations : op_callback_deref(c, f, op)
        \/ op_callback_return(c)
        \/ \E f \in Files : HostReleaseLast(c, f)
        \/ TrampolineStep(c)

SpecUse == Init /\ [][NextUse]_vars

InitAnyVtable ==
    /\ InitLife /\ InitVtable /\ FixedIoctl /\ FixedCall /\ FixedWrapper
    /\ FixedDefault /\ FixedMisc /\ FixedShared /\ FixedParams /\ FixedLog

SpecVtable == InitAnyVtable /\ [][NextVtable]_vars

InitAnyIoctl ==
    /\ InitLife /\ FixedVtable /\ InitIoctl /\ FixedCall /\ FixedWrapper
    /\ FixedDefault /\ FixedMisc /\ FixedShared /\ FixedParams /\ FixedLog

SpecIoctl == InitAnyIoctl /\ [][NextIoctl]_vars

InitAnyCall ==
    /\ InitLife /\ FixedVtable /\ FixedIoctl /\ InitCall /\ FixedWrapper
    /\ FixedDefault /\ FixedMisc /\ FixedShared /\ FixedParams /\ FixedLog

SpecCall == InitAnyCall /\ [][NextCall]_vars

InitAnyWrapper ==
    /\ InitLife /\ FixedVtable /\ FixedIoctl /\ FixedCall /\ InitWrapper
    /\ FixedDefault /\ FixedMisc /\ FixedShared /\ FixedParams /\ FixedLog

SpecWrapper == InitAnyWrapper /\ [][NextWrapper]_vars

InitAnyDefault ==
    /\ InitLife /\ FixedVtable /\ FixedIoctl /\ FixedCall /\ FixedWrapper
    /\ InitDefault /\ FixedMisc /\ FixedShared /\ FixedParams /\ FixedLog

SpecDefault == InitAnyDefault /\ [][NextDefault]_vars

InitAnyMisc ==
    /\ InitLife /\ FixedVtable /\ FixedIoctl /\ FixedCall /\ FixedWrapper
    /\ FixedDefault /\ InitMisc /\ FixedShared /\ FixedParams /\ FixedLog

SpecMisc == InitAnyMisc /\ [][NextMisc]_vars

InitAnyShared ==
    /\ InitLife /\ FixedVtable /\ FixedIoctl /\ FixedCall /\ FixedWrapper
    /\ FixedDefault /\ FixedMisc /\ InitShared /\ FixedParams /\ FixedLog

SpecShared == InitAnyShared /\ [][NextShared]_vars

InitAnyParams ==
    /\ InitLife /\ FixedVtable /\ FixedIoctl /\ FixedCall /\ FixedWrapper
    /\ FixedDefault /\ FixedMisc /\ FixedShared /\ InitParams /\ FixedLog

SpecParams == InitAnyParams /\ [][NextParams]_vars

InitAnyLog ==
    /\ InitLife /\ FixedVtable /\ FixedIoctl /\ FixedCall /\ FixedWrapper
    /\ FixedDefault /\ FixedMisc /\ FixedShared /\ FixedParams /\ InitLog

SpecLog == InitAnyLog /\ [][NextLog]_vars

-----------------------------------------------------------------------------
\* Claims about the life cycle.

\* Every file the host is done with: never opened, open failed, or released.
AllSettled == \A f \in Files : fstate[f] \in {"closed", "failed", "released"}

\* C1: with one release per successful open, every address open_callback
\* released with into_pointer is reclaimed with from_pointer exactly once: no
\* from_pointer call is made on an address that is not outstanding, no file's
\* address is reclaimed twice, and once every opened file is released no
\* released address is left unreclaimed.
C1_ReclaimedExactlyOnce ==
    /\ \A f \in Files : n_bad[f] = 0 /\ n_from[f] <= 1
    /\ AllSettled =>
          /\ \A a \in Addr : heap[a] # "raw"
          /\ \A f \in Files : into_addr[f] # NULL => n_from[f] = 1

C1_Witness ==
    /\ AllSettled
    /\ \A f \in Files : fstate[f] = "released" /\ n_from[f] = 1
    /\ into_addr[1] = into_addr[2]

\* C4: release_callback on an open file has written NULL into the slot before
\* it reclaims, reclaims the address it read from the slot exactly once, calls
\* T::release exactly once with that instance and returns 0; after it has
\* returned the slot is NULL.
C4_ReleaseTrampoline ==
    /\ \A c \in Ctx :
          /\ pc[c] = "rel_from" =>
                /\ private_data[cur[c].file] = NULL
                /\ cur[c].ptr = into_addr[cur[c].file]
                /\ n_from[cur[c].file] = 0
                /\ n_hook[cur[c].file] = 0
          /\ pc[c] = "rel_hook" =>
                /\ private_data[cur[c].file] = NULL
                /\ cur[c].obj = into_addr[cur[c].file]
                /\ n_from[cur[c].file] = 1
                /\ n_hook[cur[c].file] = 0
          /\ (pc[c] = "idle" /\ ret[c].op = "release") => ret[c] = Returned("release", 0)
    /\ \A f \in Files :
          fstate[f] = "released" =>
                /\ private_data[f] = NULL
                /\ n_from[f] = 1
                /\ n_hook[f] = 1
                /\ hook_obj[f] = into_addr[f]
                /\ hook_obj[f] # NULL

C4_Witness ==
    \E c \in Ctx : \E f \in Files :
        /\ pc[c] = "idle" /\ ret[c] = Returned("release", 0)
        /\ fstate[f] = "released" /\ n_hook[f] = 1 /\ private_data[f] = NULL

\* C5: a violation of the ownership contract aborts: whenever from_pointer was
\* called on an address no matching into_pointer produced (the NULL a second
\* release finds in the slot), the context is stopped, no instance is
\* reconstructed from that address and T::release is not called with one.
C5_ViolationAborts ==
    /\ \A c \in Ctx : ~cur[c].bogus
    /\ \A f \in Files : n_hook[f] <= n_from[f]

\* C6: in every interleaving of two contexts that each open and then release
\* their own file, no release reclaims an address that is not outstanding, a
\* release reclaims the address its own open stored, each file's address is
\* reclaimed at most once, and exactly once when the file is released.
C6_TwoContexts ==
    \A c \in Ctx :
        LET f == FileOf(c) IN
        /\ n_bad[f] = 0
        /\ n_from[f] <= 1
        /\ pc[c] \in {"rel_hook", "rel_ret"} =>
              n_from[f] = 1 /\ cur[c].file = f /\ cur[c].obj = into_addr[f]
        /\ fstate[f] = "released" => n_from[f] = 1

C6_Witness ==
    /\ pc["c1"] = "rel_hook" /\ pc["c2"] = "rel_hook"
    /\ n_from[1] = 1 /\ n_from[2] = 1
    /\ cur["c1"].obj # cur["c2"].obj

\* C16: when open succeeds, the step that ends open_callback stores in the
\* file's slot the address into_pointer returned for the instance T::open
\* created, which is then a released (raw) block, and returns 0; when open
\* fails, the trampoline returns a negative error code, no block changes its
\* state (no address is released) and no slot changes.
C16_OpenTrampoline ==
    [][/\ \A c \in Ctx :
            (pc[c] = "open_store" /\ pc'[c] = "idle") =>
                LET f == cur[c].file IN
                /\ into_addr[f] # NULL /\ into_addr[f] = cur[c].ptr
                /\ private_data'[f] = into_addr[f]
                /\ heap'[into_addr[f]] = "raw"
                /\ fstate'[f] = "open"
                /\ ret'[c] = Returned("open", 0)
       /\ \A f \in Files :
            (fstate[f] = "closed" /\ fstate'[f] = "failed") =>
                /\ private_data' = private_data
                /\ heap' = heap
                /\ into_addr' = into_addr /\ into_addr[f] = NULL
                /\ \E c \in Ctx :
                      /\ pc[c] = "idle" /\ pc'[c] = "idle"
                      /\ ret'[c].kind = "ret" /\ ret'[c].op = "open" /\ ret'[c].val < 0
      ]_vars

C16_Witness ==
    /\ fstate[1] = "open" /\ private_data[1] = into_addr[1] /\ private_data[1] # NULL
    /\ heap[private_data[1]] = "raw"
    /\ ret["c1"] = Returned("open", 0)
    /\ fstate[2] = "failed" /\ private_data[2] = NULL
    /\ ret["c2"] = Returned("open", -12)

\* C20: between open and release the slot holds the address open stored, and
\* every read, write, llseek, ioctl, compat_ioctl and fsync trampoline, in any
\* interleaving, sees that address, leaves the slot as it is and leaves the
\* block released (it takes no ownership of it).
C20_SlotOnlyOpenRelease ==
    /\ \A c \in Ctx :
          pc[c] = "op_body" =>
              LET f == cur[c].file IN
              /\ fstate[f] = "open"
              /\ cur[c].ptr = into_addr[f] /\ cur[c].ptr # NULL
              /\ private_data[f] = into_addr[f]
              /\ heap[cur[c].ptr] = "raw"
    /\ \A f \in Files :
          fstate[f] = "open" =>
              /\ private_data[f] = into_addr[f] /\ private_data[f] # NULL
              /\ heap[private_data[f]] = "raw"

C20_Witness ==
    /\ pc["c1"] = "op_body" /\ pc["c2"] = "op_body"
    /\ cur["c1"].file = 1 /\ cur["c2"].file = 1
    /\ cur["c1"].op = "read" /\ cur["c2"].op = "write"
    /\ cur["c1"].ptr = private_data[1] /\ cur["c2"].ptr = private_data[1]
    /\ fstate[2] = "released"

-----------------------------------------------------------------------------
\* Claims about the dispatch table.


\* C2: for each of the 64 flag combinations the table has read, write, llseek,
\* unlocked_ioctl, compat_ioctl and fsync non-null exactly when the matching
\* flag is true, open and release non-null always, and every other slot null
\* or zero.
C2_VtableShape ==
    /\ \A n \in CapNames : (vtable[SlotOf(n)] # None) <=> to_use[n]
    /\ vtable.open # None /\ vtable.release # None
    /\ \A s \in FnSlots \ ({SlotOf(n) : n \in CapNames} \cup {"open", "release"}) :
          vtable[s] = None
    /\ vtable.mmap_supported_flags = 0
    /\ vtable.owner = NULL

C2_Witness ==
    /\ to_use.read /\ ~to_use.write /\ to_use.seek /\ ~to_use.fsync
    /\ vtable.read = "read_callback" /\ vtable.write = None
    /\ vtable.llseek = "llseek_callback" /\ vtable.fsync = None
    /\ vt_call.slot = "llseek" /\ vt_call.entered = "llseek_callback"

\* C13: for a driver type whose flag for an operation is false, no call of the
\* host through the table reaches the driver's method for that operation: the
\* slot the host finds is null and nothing is entered.
C13_UndeclaredNeverEntered ==
    \A n \in CapNames :
        ~to_use[n] =>
            /\ vt_call.method # n
            /\ vt_call.slot = SlotOf(n) => vt_call.entered = None

C13_Witness ==
    /\ to_use.read /\ ~to_use.write
    /\ vtable.read = "read_callback"
    /\ vt_call.slot = "write" /\ vt_call.entered = None /\ vt_call.method = None

-----------------------------------------------------------------------------
\* Claims about ioctl commands.

\* The decoded direction and size of the running command, and the directions
\* dispatch has a handler for.
IcmdDir == dir_of(ioc, icmd.cmd)
IcmdSize == size_of(ioc, icmd.cmd)
HandledDirs == {ioc.NONE, ioc.READ, ioc.WRITE, BitOr(ioc.READ, ioc.WRITE)}

\* The one handler call the direction stands for.
ExpectedCall ==
    CASE IcmdDir = ioc.NONE ->
            HandlerCall("pure", icmd.cmd, icmd.arg, NoView)
      [] IcmdDir = ioc.READ ->
            HandlerCall("read", icmd.cmd, 0,
                        [kind |-> "writer", ptr |-> icmd.arg, len |-> IcmdSize])
      [] IcmdDir = ioc.WRITE ->
            HandlerCall("write", icmd.cmd, 0,
                        [kind |-> "reader", ptr |-> icmd.arg, len |-> IcmdSize])
      [] OTHER ->
            HandlerCall("read_write", icmd.cmd, 0,
                        [kind |-> "raw", ptr |-> icmd.arg, len |-> IcmdSize])

\* C3 as stated: every dispatch of a command with direction none, read, write
\* or read-and-write invokes exactly one handler, the one its direction
\* stands for, with the raw command and argument (none) or a view of exactly
\* the decoded size over the argument address (the others).
C3_ExactlyOneHandler ==
    (io_last.n >= 1 /\ IcmdDir \in HandledDirs) => io_last.calls = <<ExpectedCall>>

\* C3, amended: dispatch invokes the one handler its direction stands for when
\* the direction is none, or when the command still holds the view that
\* IoctlCommand::new constructed; when it holds none (construction failed, or
\* an earlier dispatch took it) dispatch invokes no handler and fails with EFAULT.
C3_OneHandlerWhenViewHeld ==
    (io_last.n >= 1 /\ IcmdDir \in HandledDirs) =>
        IF IcmdDir = ioc.NONE \/ io_last.had_slice
        THEN io_last.calls = <<ExpectedCall>>
        ELSE io_last.calls = <<>> /\ io_last.result = Err("EFAULT")

C3_Witness ==
    /\ io_last.n = 1 /\ io_last.had_slice
    /\ IcmdDir = ioc.READ /\ IcmdSize = 16
    /\ io_last.calls = <<ExpectedCall>>
    /\ io_last.calls[1].h = "read" /\ io_last.calls[1].view.len = 16
    /\ io_last.result = Ok(1)

\* C10 as stated: a dispatch of a command whose direction is neither none,
\* read, write nor read-and-write fails with EINVAL and invokes no handler,
\* whatever the argument.
C10_OtherDirectionEinval ==
    (io_last.n >= 1 /\ IcmdDir \notin HandledDirs) =>
        io_last.calls = <<>> /\ io_last.result = Err("EINVAL")

\* C10, amended: such a dispatch invokes no handler and fails: with EINVAL when
\* the command holds the view over the argument, with EFAULT when it holds
\* none (the argument could not be validated, or an earlier dispatch took it).
C10_OtherDirectionFails ==
    (io_last.n >= 1 /\ IcmdDir \notin HandledDirs) =>
        /\ io_last.calls = <<>>
        /\ io_last.result = IF io_last.had_slice THEN Err("EINVAL") ELSE Err("EFAULT")

C10_Witness ==
    /\ io_last.n = 1 /\ io_last.had_slice
    /\ IcmdDir \notin HandledDirs
    /\ icmd.arg = 4096
    /\ io_last.calls = <<>> /\ io_last.result = Err("EINVAL")

\* The handler calls among calls that were handed a view.
ViewCalls(calls) == {i \in DOMAIN calls : calls[i].view.kind # "none"}

\* C11: for one command the view is materialized at most once, and only when
\* the direction is not none: a command with direction none holds no view and
\* no handler call of it gets one; a command with another direction holds,
\* after IoctlCommand::new, the one view of the decoded size over the argument
\* (none when the address cannot be validated); over all dispatches of the
\* command at most one handler call gets a view, and it is that view; after
\* the first dispatch the command holds none, and a second dispatch makes no
\* handler call.
C11_ViewAtMostOnce ==
    icmd.live =>
        /\ IcmdDir = ioc.NONE =>
              ~icmd.user_slice.some /\ ViewCalls(io_calls) = {}
        /\ IcmdDir # ioc.NONE =>
              /\ io_last.n = 0 =>
                    icmd.user_slice = IF access_ok(icmd.arg, IcmdSize)
                                      THEN SomeSlice(icmd.arg, IcmdSize)
                                      ELSE NoSlice
              /\ io_last.n >= 1 => ~icmd.user_slice.some
              /\ Cardinality(ViewCalls(io_calls)) <= 1
              /\ \A i \in ViewCalls(io_calls) :
                    io_calls[i].view.ptr = icmd.arg /\ io_calls[i].view.len = IcmdSize
              /\ io_last.n >= 2 => io_last.calls = <<>>

C11_Witness ==
    /\ io_last.n = 2 /\ IcmdDir = ioc.WRITE /\ IcmdSize = 16
    /\ Len(io_calls) = 1 /\ io_calls[1].view = [kind |-> "reader", ptr |-> 4096, len |-> 16]
    /\ io_last.calls = <<>> /\ io_last.result = Err("EFAULT")

\* C12: when the direction is not none and the view over the argument address
\* cannot be constructed, dispatch fails with EFAULT and calls no handler.
C12_NoViewEfault ==
    (io_last.n >= 1 /\ IcmdDir # ioc.NONE /\ ~access_ok(icmd.arg, IcmdSize)) =>
        io_last.calls = <<>> /\ io_last.result = Err("EFAULT")

C12_Witness ==
    /\ io_last.n = 1 /\ IcmdDir = ioc.READ /\ IcmdSize = 16
    /\ icmd.arg = TASK_SIZE_MAX + 4096
    /\ io_calls = <<>> /\ io_last.result = Err("EFAULT")

-----------------------------------------------------------------------------
\* Claims about the pointer wrappers.

-----------------------------------------------------------------------------
\* Claims about the per-call trampolines.

\* The last call was handed an offset outside the non-negative range: read and
\* write through *offset, llseek with SEEK_SET, fsync as start or end.
BadOffsetCall ==
    \/ call.op \in {"read", "write"} /\ call.args.off < 0
    \/ call.op = "llseek" /\ call.args.whence = SEEK_SET /\ call.args.off < 0
    \/ call.op = "fsync" /\ (call.args.off < 0 \/ call.args.end < 0)

\* C7: read, write, llseek with SEEK_SET and fsync return a negative error code
\* for an offset outside the non-negative signed range, and the driver's
\* method is not executed.
C7_BadOffsetRejected ==
    BadOffsetCall =>
        /\ call.o.out.kind = "ret"
        /\ call.o.out.val < 0
        /\ ~call.o.entered

C7_Witness ==
    /\ call.op = "fsync" /\ call.args.off = 1 /\ call.args.end = MinLoff
    /\ call.drv.r = Ok(1)
    /\ call.o.out = Returned("fsync", to_kernel_errno("EINVAL"))
    /\ ~call.o.entered

\* The last call was a read or write whose driver method ran and returned Ok,
\* and that returned to the host.
TransferSucceeded ==
    /\ call.op \in {"read", "write"}
    /\ call.o.entered /\ call.drv.r.ok
    /\ call.o.out.kind = "ret"

\* C8: on success read and write return len minus what is left in the bounded
\* view after the driver's method ran, a value in 0..len (the bytes the driver
\* moved), whatever count T::write returned itself.
C8_CountFromView ==
    TransferSucceeded =>
        /\ call.o.out.val = call.args.len - call.o.remaining
        /\ call.o.out.val = call.drv.k
        /\ 0 <= call.o.out.val /\ call.o.out.val <= call.args.len

C8_Witness ==
    /\ TransferSucceeded /\ call.op = "write"
    /\ call.args.len = 3 /\ call.drv.k = 2 /\ call.drv.r = Ok(-1)
    /\ call.o.remaining = 1 /\ call.o.out = Returned("write", 2)

\* The host's offset plus the buffer length stays inside loff_t (what the
\* host's own range check admits for read and write).
OffsetRoom == call.args.off + call.args.len <= MaxLoff

\* C9: whenever the driver's method ran (on arguments with OffsetRoom), its Ok
\* is returned to the host as a non-negative value and its Err(e) as the
\* negative errno of e, in every trampoline.
C9_ResultConvention ==
    (call.op # "none" /\ call.o.entered /\ OffsetRoom) =>
        IF call.drv.r.ok
        THEN call.o.out.kind = "ret" /\ call.o.out.val >= 0
        ELSE call.o.out = Returned(call.op, to_kernel_errno(call.drv.r.e))

\* C15: when the driver's method returns an error, or the conversion of an
\* argument fails before the method is called, the trampoline returns the
\* negative error code to the host and does not panic.
C15_ErrorsReturned ==
    (call.op # "none" /\ (~call.o.entered \/ ~call.drv.r.ok)) =>
        /\ call.o.out.kind = "ret"
        /\ call.o.out.val < 0
        /\ call.o.entered => call.o.out.val = to_kernel_errno(call.drv.r.e)

C15_Witness ==
    /\ call.op = "fsync" /\ call.o.entered /\ call.drv.r = Err("ENOMEM")
    /\ call.o.out = Returned("fsync", -12)

\* C22: when read_callback or write_callback returns a byte count, the host's
\* offset has moved forward by exactly that count (in loff_t arithmetic); when
\* it returns an error the host's offset is what it was, also when the
\* driver's method moved bytes through the view before it failed.
C22_OffsetFollowsReturn ==
    (call.op \in {"read", "write"} /\ call.o.out.kind = "ret") =>
        /\ f_pos = call.o.pos
        /\ IF call.o.out.val >= 0
           THEN (call.o.pos - call.args.off) % (2 ^ LongBits) = call.o.out.val
           ELSE call.o.pos = call.args.off

C22_Witness ==
    /\ call.op = "read" /\ call.args.off = 1 /\ call.args.len = 3
    /\ call.o.entered /\ call.drv = Driver(2, Err("ENOMEM")) /\ call.o.remaining = 1
    /\ call.o.out = Returned("read", -12) /\ f_pos = 1

\* C23: for every offset in [0, 2^63) and every byte count transferred, a
\* successful read or write leaves the host's offset at offset + count,
\* computed without overflow and so still a non-negative loff_t.
C23_OffsetNeverOverflows ==
    (call.op \in {"read", "write"} /\ call.args.off >= 0 /\ call.o.entered /\ call.drv.r.ok) =>
        /\ call.o.out.kind = "ret"
        /\ call.o.pos = call.args.off + (call.args.len - call.o.remaining)
        /\ call.o.pos >= 0 /\ call.o.pos <= MaxLoff

\* C24: llseek_callback hands T::seek exactly the seek spec of the whence:
\* SEEK_SET gives Start(offset) (for an offset that is not negative), SEEK_CUR
\* gives Current(offset) and SEEK_END gives End(offset), the signed offset as
\* it came; any other whence returns -EINVAL and T::seek is not called.
C24_WhenceToSeekFrom ==
    call.op = "llseek" =>
        LET whence == call.args.whence
            offset == call.args.off
        IN  /\ (whence = SEEK_SET /\ offset >= 0) =>
                  call.o.entered /\ call.o.seek = SeekFrom("Start", offset)
            /\ whence = SEEK_CUR =>
                  call.o.entered /\ call.o.seek = SeekFrom("Current", offset)
            /\ whence = SEEK_END =>
                  call.o.entered /\ call.o.seek = SeekFrom("End", offset)
            /\ whence \notin {SEEK_SET, SEEK_CUR, SEEK_END} =>
                  /\ ~call.o.entered /\ call.o.seek = NoSeek
                  /\ call.o.out = Returned("llseek", -22)

C24_Witness ==
    /\ call.op = "llseek" /\ call.args.whence = SEEK_CUR /\ call.args.off = -1
    /\ call.o.entered /\ call.o.seek = SeekFrom("Current", -1)
    /\ call.o.out = Returned("llseek", 1)

-----------------------------------------------------------------------------
\* Claims about the default methods.

\* C17 as stated: a read, write, seek, ioctl, compat_ioctl or fsync the driver
\* type does not implement fails with an error of the unsupported-operation
\* kind, a kind of its own and so not the invalid-argument error (EINVAL);
\* the default release hook only drops the instance.
C17_DefaultUnsupported ==
    /\ (dcall.m \in CapNames /\ ~dcall.own) =>
          ~dcall.result.ok /\ dcall.result.e # "EINVAL"
    /\ (dcall.m = "release" /\ ~dcall.own) =>
          dcall.released = ReleaseDone("dropped", FALSE)

\* C17, amended: such a method fails with Error::EINVAL, the error an invalid
\* argument gives, and its trampoline returns -EINVAL to the host; the default
\* release hook only drops the instance.
C17_DefaultEinval ==
    /\ (dcall.m \in CapNames /\ ~dcall.own) =>
          /\ dcall.result = Err("EINVAL")
          /\ dcall.out = Returned(SlotOf(dcall.m), -22)
    /\ (dcall.m = "release" /\ ~dcall.own) =>
          dcall.released = ReleaseDone("dropped", FALSE)

C17_Witness ==
    /\ dcall.m = "seek" /\ ~dcall.own /\ "read" \in overrides
    /\ dcall.result = Err("EINVAL") /\ dcall.out = Returned("llseek", -22)

-----------------------------------------------------------------------------
\* Claims about miscdev::Registration.

\* C18: a register on a Registration that is registered fails (EINVAL), makes
\* no call of misc_register and leaves the registration as it is.
C18_ReRegisterFails ==
    [][(mdev.some /\ misc_log'.attempts = misc_log.attempts + 1) =>
            /\ misc_log'.last = Err("EINVAL")
            /\ misc_host' = misc_host
            /\ mdev' = mdev
      ]_vars

C18_Witness ==
    /\ mdev.some /\ misc_host.dev = mdev
    /\ misc_log.attempts = 2 /\ misc_log.successes = 1
    /\ misc_log.last = Err("EINVAL")
    /\ misc_host.n_register = 1 /\ misc_host.n_deregister = 0

\* C19: misc_deregister is not called before the drop; after the drop it has
\* been called exactly once if a register attempt succeeded, and never if
\* none did.
C19_DeregisterOnceAtDrop ==
    /\ ~misc_log.dropped => misc_host.n_deregister = 0
    /\ misc_log.dropped =>
          misc_host.n_deregister = IF misc_log.successes >= 1 THEN 1 ELSE 0

C19_Witness ==
    /\ misc_log.dropped /\ misc_log.attempts = 3 /\ misc_log.successes = 1
    /\ misc_host.n_register = 2 /\ misc_host.n_deregister = 1
    /\ misc_host.dev = NoDev

\* A register attempt, a drop, and a last attempt that failed in the host.
MiscAttempt == misc_log'.attempts = misc_log.attempts + 1
MiscDropped == ~misc_log.dropped /\ misc_log'.dropped /\ misc_log'.attempts = misc_log.attempts
MiscHostFailed == ~misc_log.last.ok /\ misc_log.last.e \in {"EBUSY", "ENOMEM"}

\* C25: when misc_register fails inside register, register returns that
\* failure, the Registration holds no device and the host's device is what it
\* was; the next register calls misc_register again, and a drop in that state
\* does not call misc_deregister.
C25_FailedRegisterUnregistered ==
    [][/\ (MiscAttempt /\ misc_host'.n_register = misc_host.n_register + 1
              /\ misc_log'.successes = misc_log.successes) =>
            /\ misc_log'.last \in {Err("EBUSY"), Err("ENOMEM")}
            /\ ~mdev'.some
            /\ misc_host'.dev = misc_host.dev
       /\ (MiscHostFailed /\ MiscAttempt) =>
            /\ misc_host'.n_register = misc_host.n_register + 1
            /\ misc_log'.last # Err("EINVAL")
       /\ (MiscHostFailed /\ MiscDropped) =>
            misc_host'.n_deregister = misc_host.n_deregister
      ]_vars

C25_Witness ==
    /\ misc_log.attempts = 2 /\ misc_host.n_register = 2 /\ misc_log.successes = 1
    /\ misc_log.last = Ok(0) /\ mdev.some /\ ~misc_log.dropped

-----------------------------------------------------------------------------
\* Claims about LogLineWriter.

\* C27: after any sequence of write_str calls pos is at most LOG_LINE_MAX,
\* as_bytes is the first min(bytes written, LOG_LINE_MAX) bytes of the inputs
\* put end to end, and the last write_str returned Ok; and no write_str makes
\* pos smaller.
C27_LogLineWriter ==
    /\ [](/\ lw_pos <= LOG_LINE_MAX
          /\ lw_pos = Min(Len(lw_log.all), LOG_LINE_MAX)
          /\ as_bytes(lw_data, lw_pos) = SubSeq(lw_log.all, 1, Min(Len(lw_log.all), LOG_LINE_MAX))
          /\ lw_log.last = Ok(0))
    /\ [][lw_pos' >= lw_pos]_vars

C27_Witness ==
    /\ lw_log.n = 3 /\ Len(lw_log.all) = 495 + 497 + 1
    /\ lw_pos = LOG_LINE_MAX
    /\ lw_data[495] = Str(495, 1)[495] /\ lw_data[496] = Str(497, 2)[1]
    /\ lw_data[LOG_LINE_MAX] = Str(497, 2)[497]

-----------------------------------------------------------------------------
\* Claims about the parameter lock.

\* C26: the lock taken by kernel_param_lock is released exactly once on every way out of the
\* block that holds the guard: init holds the lock only inside the block, and once the block
\* was left, by its end or by the early return for a my_str that is not UTF-8, every lock
\* call has its one unlock call and init does not hold the lock.
C26_LockReleasedOnEveryPath ==
    /\ kp_log.unlocks <= kp_log.locks /\ kp_log.locks <= 1
    /\ (kp_holder = "init") <=> (config_sysfs /\ init_pc \in {"my_i32", "my_str", "my_usize"})
    /\ init_pc \in {"after", "done"} =>
           /\ kp_holder # "init"
           /\ kp_log.unlocks = kp_log.locks
           /\ config_sysfs => kp_log.locks = 1

C26_Witness ==
    /\ config_sysfs /\ init_pc = "done" /\ init_ret = Err("EINVAL")
    /\ kp_log.left = "early_return"
    /\ kp_log.locks = 1 /\ kp_log.unlocks = 1 /\ kp_holder = "none"

-----------------------------------------------------------------------------
\* Claims about shared and exclusive instances.

\* The step is the release hook of a Box instance at address a.
BoxHookStep(c, a) ==
    /\ s_strategy = "Box" /\ s_pc[c] = "taken" /\ s_cur[c].obj = a /\ s_pc'[c] = "idle"

\* C21: the storage of an instance is allocated exactly while it has a holder (a slot, a
\* running trampoline, or an owner outside), so it is freed when the last holder is dropped
\* and the address in the slot of an open file is never that of freed storage; a step frees
\* storage only by dropping the last holder; and with Box the release hook frees the
\* instance unless it moved it elsewhere.
C21_FreedWithLastHolder ==
    /\ [](/\ \A a \in Addr : s_alloc[a] <=> Holders(a) > 0
          /\ \A a \in Addr : s_count[a] = Holders(a)
          /\ \A f \in Files : s_slot[f] # NULL => s_alloc[s_slot[f]])
    /\ [][/\ \A a \in Addr : (s_alloc[a] /\ ~s_alloc'[a]) =>
                  (Holders(a) = 1 /\ SlotHolders(a) = 0)
          /\ \A c \in Ctx, a \in Addr : BoxHookStep(c, a) =>
                  (s_alloc'[a] <=> s_outside'[a] > s_outside[a])]_vars

\* Two open files shared one Arc instance and the driver dropped its own owner; file 2 is
\* being released and the storage stays for file 1.
C21_Witness ==
    /\ s_strategy = "Arc"
    /\ \E a \in Addr :
         /\ s_alloc[a] /\ s_count[a] = 2 /\ s_outside[a] = 0
         /\ s_slot[1] = a /\ s_slot[2] = NULL
         /\ s_pc["c1"] = "taken" /\ s_cur["c1"].obj = a /\ s_cur["c1"].file = 2

====
